---- MODULE Spec2Model ----
(***************************************************************************)
(* Verification model of the libvma packet-path core:                      *)
(*   - ring_bond            (ring aggregation, failover, ownership routing)*)
(*   - cq_mgr_mp::poll_mp_cq (multi-packet receive-queue decoder)          *)
(*   - ring_eth_cb          (cyclic-buffer consumer)                       *)
(* A member ring is identified with its slot index in m_bond_rings, so     *)
(* m_bond_rings[i] = i; NULL is the null pointer.                          *)
(***************************************************************************)
EXTENDS Integers, Sequences, FiniteSets, TLC

VARIABLES
    \* ---- ring_bond ----
    m_n_num_resources,  \* number of member rings N
    m_type,             \* bonding mode
    m_active_rings,     \* [0..N-1 -> member index or NULL]
    up,                 \* ring_simple::is_up() of each member (set by the
                        \* latest start/stop_active_qp_mgr)
    m_lock_ring_rx,     \* [owner, count]: recursive lock, owner 0 when free
    m_lock_ring_tx,
    pc,                 \* position of each thread inside an aggregator call
    local,              \* locals of the call a thread is executing
    errno,              \* per-thread errno
    lastOp,             \* what the latest completed aggregator call did
    bufs,               \* mem_buf_desc_t: p_desc_owner, p_next_desc, where it is
    flowRule,           \* the flow rule registered on each member
    \* ---- buffer-ownership routing (one call on one input) ----
    rt,                 \* the input: owners of the buffers, in input order
    rtOut,              \* the outcome of the routing call
    \* ---- ring_bond::generate_id ----
    m_xmit_hash_policy, \* the transmit hash policy of the bond
    hashLast,           \* the latest generate_id call: inputs and id
    hashPrev,           \* the generate_id call before the latest
    \* ---- cq_mgr_mp / ring_eth_cb ----
    m_cqes,             \* the completion records written by the hardware and
                        \* not consumed yet, oldest first
    m_cq_cons_index,    \* consumption index of the completion queue
    m_stride_counter,   \* strides used in the current work queue
    m_curr_wq,          \* index of the current work queue
    m_curr_d_addr,      \* address of the accumulated payload, 0 when empty
    m_curr_packets,     \* packets accumulated
    m_curr_size,        \* bytes accumulated
    mpLast,             \* what the latest cyclic_buffer_read call did
    mpTotals,           \* running totals: good records decoded and packets
                        \* and bytes reported in completions
    \* ---- ring_bond::restart, arming and moderation ----
    cq_moderation_enable,   \* safe_mce_sys().cq_moderation_enable
    m_cq_moderation_info,   \* [member -> [period, count]]
    rsLast,             \* what the latest restart call did
    \* ---- ring_profiles_collection ----
    m_curr_idx,         \* the key the next add_profile call hands out
    m_profs_map,        \* [key -> pointer to the ring_profile]
    profHeap,           \* the ring_profile objects allocated, by pointer
    profAdds,           \* the add_profile calls made: [key, prof] of each
    profLast            \* what the latest call of the collection did

bondVars == <<m_n_num_resources, m_type, m_active_rings, up,
              m_lock_ring_rx, m_lock_ring_tx, pc, local, errno, lastOp, bufs,
              flowRule>>

routeVars == <<rt, rtOut>>

hashVars == <<m_xmit_hash_policy, hashLast, hashPrev>>

mpVars == <<m_cqes, m_cq_cons_index, m_stride_counter, m_curr_wq,
            m_curr_d_addr, m_curr_packets, m_curr_size, mpLast, mpTotals>>

modVars == <<cq_moderation_enable, m_cq_moderation_info, rsLast>>

profVars == <<m_curr_idx, m_profs_map, profHeap, profAdds, profLast>>

nonBondVars == <<routeVars, hashVars, mpVars, modVars, profVars>>

vars == <<bondVars, nonBondVars>>

\* ---------------------------------------------------------------- constants
MAX_NUM_RING_RESOURCES == 10
NULL == -1
EBUSY == 16
EINVAL == 22
ETH_P_IP == 2048
ETH_P_8021Q == 33024
MSG_DONTWAIT == 64

\* ------------------------------------------------------------------- bounds
MaxRings == 2       \* members of the aggregate ring in the concurrent model
NumThreads == 2     \* threads calling into the aggregate ring
NumBufs == 2        \* transmit buffer descriptors
MaxFlowRings == 3   \* members of the aggregate ring in the flow model
MaxFlips == 2       \* members whose state one reconfiguration changes
MaxRouteRings == 2  \* members in the routing model (besides the maximum, 10)
MaxRouteBufs == 3   \* buffers in one routed queue or chain
MaxHashRings == 3   \* members in the hash model (besides the maximum, 10)
MaxCqes == 3        \* completion records the hardware writes in one run
MaxProfiles == 4    \* add_profile calls made in one run
MaxWant == 2        \* largest min and max a caller passes to cyclic_buffer_read

Threads == 1 .. NumThreads
Bufs == 1 .. NumBufs
BondTypes == {"ACTIVE_BACKUP", "LAG_8023ad"}
Slots(n) == 0 .. n - 1
Members == Slots(m_n_num_resources)

\* ------------------------------------------------- active set / gap closing

\* mutant: the slot of an inactive member keeps what it held
SetActiveSlotKeep(active, i, isActive) ==
    [active EXCEPT ![i] = IF isActive THEN i ELSE @]

\* one iteration of the loop of ring_bond::restart / create_slave_list:
\* the slot of member i after its state has been applied
SetActiveSlot(active, i, isActive) ==
    [active EXCEPT ![i] = IF isActive THEN i ELSE NULL]

\* the first loop of close_gaps_active_rings: index of the first non-null
\* slot, n when there is none
FirstActive(active, n) ==
    IF \E i \in Slots(n) : active[i] # NULL
    THEN CHOOSE i \in Slots(n) :
            /\ active[i] # NULL
            /\ \A j \in Slots(n) : j < i => active[j] = NULL
    ELSE n

\* the while loop of close_gaps_active_rings
RECURSIVE close_gaps_loop(_, _, _, _, _)
close_gaps_loop(active, i, curr_active, checked, n) ==
    IF checked >= n THEN active
    ELSE LET j == IF i = 0 THEN n - 1 ELSE i - 1
         IN  IF active[j] # NULL
             THEN close_gaps_loop(active, j, active[j], checked + 1, n)
             ELSE close_gaps_loop([active EXCEPT ![j] = curr_active], j,
                                  curr_active, checked + 1, n)

\* mutant: the scan stops at slot 0 instead of wrapping to n - 1
close_gaps_no_wrap(active, n) ==
    LET i == FirstActive(active, n)
    IN  IF i = n THEN active
        ELSE close_gaps_loop(active, i, active[i], n - i, n)

\* mutant: the scan goes forward (increasing index, wrapping to 0), so an
\* empty slot gets the nearest non-null slot below it
close_gaps_forward(active, n) ==
    IF \A i \in Slots(n) : active[i] = NULL THEN active
    ELSE [j \in Slots(n) |->
            IF active[j] # NULL THEN active[j]
            ELSE active[CHOOSE k \in Slots(n) :
                           /\ active[k] # NULL
                           /\ \A l \in Slots(n) :
                                 active[l] # NULL =>
                                     ((j - k + n) % n) <= ((j - l + n) % n)]]

close_gaps_active_rings(active, n) ==
    LET i == FirstActive(active, n)
    IN  IF i = n THEN active
        ELSE close_gaps_loop(active, i, active[i], 1, n)

\* the member loop of create_slave_list: slot i holds member i when active
create_slave_list(active_slaves, n) ==
    close_gaps_active_rings(
        [i \in Slots(n) |-> IF active_slaves[i] THEN i ELSE NULL], n)

\* the member loop of restart followed by close_gaps_active_rings
RECURSIVE restart_loop(_, _, _, _)
restart_loop(active, info, i, n) ==
    IF i >= n THEN active
    ELSE restart_loop(SetActiveSlot(active, i, info[i]), info, i + 1, n)

restart_active(active, info, n) ==
    close_gaps_active_rings(restart_loop(active, info, 0, n), n)

\* ------------------------------------------------------ transmit buffers
\* owner value of a buffer that belongs to a ring outside this aggregate
OTHER_OWNER == MAX_NUM_RING_RESOURCES
\* release destination: the global transmit pool g_buffer_pool_tx
GLOBAL_POOL == MAX_NUM_RING_RESOURCES + 1

\* where a descriptor is: "pool" (free), "held" (the caller owns it),
\* "given" (passed into a call that has not disposed of it), "hw" (handed to
\* a member's send), "double" (released while not held: a double free)
PoolBuf == [owner |-> NULL, next |-> NULL, where |-> "pool"]
ForeignBuf == [owner |-> OTHER_OWNER, next |-> NULL, where |-> "held"]

\* the buffers of the chain that starts at head, in chain order
RECURSIVE ChainSeq(_, _)
ChainSeq(heap, head) ==
    IF head = NULL THEN <<>> ELSE <<head>> \o ChainSeq(heap, heap[head].next)

\* a release of one descriptor into a pool; only a descriptor that was given
\* to the releasing call may be released: any other release frees a
\* descriptor that is free already or that somebody else still owns
ReleaseOne(heap, b) ==
    [heap EXCEPT ![b] =
        IF heap[b].where = "given" THEN PoolBuf
        ELSE [heap[b] EXCEPT !.where = "double"]]

\* PhysicalRing / buffer pool: release of a next-linked chain of descriptors
RECURSIVE ReleaseChain(_, _)
ReleaseChain(heap, head) ==
    IF head = NULL THEN heap
    ELSE ReleaseChain(ReleaseOne(heap, head), heap[head].next)

\* devide_buffers_helper (chain shape), inner while: last buffer of the run
\* of equally owned buffers that starts at head
RECURSIVE RunEnd(_, _)
RunEnd(heap, head) ==
    IF heap[head].next # NULL /\ heap[heap[head].next].owner = heap[head].owner
    THEN RunEnd(heap, heap[head].next)
    ELSE head

\* mutant: the comparison with the first member is left out
FindOwnerNotFirst(last_owner, i, n) ==
    IF last_owner \in 1 .. n - 1 THEN last_owner ELSE n

\* devide_buffers_helper (chain shape), for loop: the first i with
\* m_bond_rings[i] == last_owner, n when there is none
RECURSIVE FindOwner(_, _, _)
FindOwner(last_owner, i, n) ==
    IF i >= n THEN n
    ELSE IF i = last_owner THEN i
    ELSE FindOwner(last_owner, i + 1, n)

\* devide_buffers_helper (chain shape), outer while. st.heap: descriptors,
\* st.per_ring: buffer_per_ring, st.last: buffers_last, st.pooled: the chains
\* put to g_buffer_pool_tx, each as the sequence of its buffers
RECURSIVE devide_chain_loop(_, _, _)
devide_chain_loop(st, head, n) ==
    IF head = NULL THEN st
    ELSE
      LET last_owner == st.heap[head].owner
          current == head
          h == RunEnd(st.heap, head)
          i == FindOwner(last_owner, 0, n)
          heap1 == IF i < n /\ st.last[i] # NULL
                   THEN [st.heap EXCEPT ![st.last[i]].next = current]
                   ELSE st.heap
          per1 == IF i < n /\ st.last[i] = NULL
                  THEN [st.per_ring EXCEPT ![i] = current]
                  ELSE st.per_ring
          last1 == IF i < n THEN [st.last EXCEPT ![i] = h] ELSE st.last
          temp == heap1[h].next
          heap2 == [heap1 EXCEPT ![h].next = NULL]
      IN  devide_chain_loop(
            [heap |-> IF i = n THEN ReleaseChain(heap2, current) ELSE heap2,
             per_ring |-> per1,
             last |-> last1,
             pooled |-> IF i = n
                        THEN Append(st.pooled, ChainSeq(heap2, current))
                        ELSE st.pooled],
            temp, n)

devide_buffers_helper_chain(heap, list, n) ==
    devide_chain_loop([heap |-> heap,
                       per_ring |-> [i \in Slots(n) |-> NULL],
                       last |-> [i \in Slots(n) |-> NULL],
                       pooled |-> <<>>], list, n)

\* mem_buf_tx_release, the loop over the members: each non-null sub-chain is
\* released to its member. The result keeps what each member received.
RECURSIVE tx_release_loop(_, _, _, _, _)
tx_release_loop(heap, per_ring, got, i, n) ==
    IF i >= n THEN [heap |-> heap, got |-> got]
    ELSE IF per_ring[i] # NULL
         THEN tx_release_loop(ReleaseChain(heap, per_ring[i]), per_ring,
                              [got EXCEPT ![i] = ChainSeq(heap, per_ring[i])],
                              i + 1, n)
         ELSE tx_release_loop(heap, per_ring, got, i + 1, n)

\* ring_bond::mem_buf_tx_release: [heap, got: member -> chain received,
\* pooled: chains returned to the global pool]
mem_buf_tx_release(heap, list, n) ==
    LET d == devide_buffers_helper_chain(heap, list, n)
        r == tx_release_loop(d.heap, d.per_ring, [i \in Slots(n) |-> <<>>], 0, n)
    IN  [heap |-> r.heap, got |-> r.got, pooled |-> d.pooled]

\* the releases of a call as a sequence of <<buffer, destination>>
Tag(chain, dest) == [k \in 1 .. Len(chain) |-> <<chain[k], dest>>]

RECURSIVE FlattenGot(_, _, _)
FlattenGot(got, i, n) ==
    IF i >= n THEN <<>> ELSE Tag(got[i], i) \o FlattenGot(got, i + 1, n)

RECURSIVE FlattenPooled(_)
FlattenPooled(pooled) ==
    IF pooled = <<>> THEN <<>>
    ELSE Tag(Head(pooled), GLOBAL_POOL) \o FlattenPooled(Tail(pooled))

Releases(r, n) == FlattenPooled(r.pooled) \o FlattenGot(r.got, 0, n)

\* mutant: the buffer is handed to the active member whoever owns it
send_ring_buffer_no_owner_check(heap, active, id, b, n) ==
    IF active[id] # NULL
    THEN [heap |-> [heap EXCEPT ![b].where = "hw"], sentTo |-> active[id],
          released |-> <<>>]
    ELSE [heap |-> ReleaseChain([heap EXCEPT ![b].next = NULL], b),
          sentTo |-> NULL, released |-> << <<b, id>> >>]

\* ring_bond::send_ring_buffer on descriptor b: [heap, sentTo: the member
\* whose send got the buffer or NULL, released: <<buffer, destination>> of
\* every release made]
send_ring_buffer(heap, active, id, b, n) ==
    LET active_ring == active[id] IN
    IF active_ring # NULL /\ heap[b].owner = active_ring
    THEN [heap |-> [heap EXCEPT ![b].where = "hw"], sentTo |-> active_ring,
          released |-> <<>>]
    ELSE
      LET heap1 == [heap EXCEPT ![b].next = NULL] IN
      IF heap1[b].owner = id
      THEN [heap |-> ReleaseChain(heap1, b), sentTo |-> NULL,
            released |-> Tag(ChainSeq(heap1, b), id)]
      ELSE
        LET r == mem_buf_tx_release(heap1, b, n)
        IN  [heap |-> r.heap, sentTo |-> NULL, released |-> Releases(r, n)]

\* ------------------------------------------- ownership routing, queue shape
\* the outcome of a routing call before any call was made
RouteNone == [shape |-> "none"]

\* devide_buffers_helper (queue shape), inner while: probe the members from
\* index on, wrapping; the index of the owner, n when no member owns it
RECURSIVE Probe(_, _, _, _)
Probe(owner, index, checked, n) ==
    IF checked >= n THEN n
    ELSE IF index = owner THEN index
    ELSE Probe(owner, (index + 1) % n, checked + 1, n)

\* buffer_per_ring[index].push_back(buff) on the array of
\* MAX_NUM_RING_RESOURCES buckets that reclaim_recv_buffers passes. An index
\* past the array is undefined behaviour: either the memory behind the array
\* happens to work as a bucket (kept in slot MAX_NUM_RING_RESOURCES), or the
\* buffer is not found again
PushBack(buckets, index, buff, ub) ==
    IF index < MAX_NUM_RING_RESOURCES \/ ub = "as_bucket"
    THEN [buckets EXCEPT ![index] = Append(@, buff)]
    ELSE buckets

\* devide_buffers_helper (queue shape), outer while. owners[k] is the owner
\* of the k-th buffer of the input; q is what is left of rx_reuse
RECURSIVE devide_queue_loop(_, _, _, _, _, _)
devide_queue_loop(q, owners, buckets, last_found_index, n, ub) ==
    IF q = <<>> THEN buckets
    ELSE LET buff == Head(q)
             index == Probe(owners[buff], last_found_index, 0, n)
         IN  devide_queue_loop(Tail(q), owners,
                               PushBack(buckets, index, buff, ub),
                               IF index < n THEN index ELSE last_found_index,
                               n, ub)

\* devide_buffers_helper(descq_t*, descq_t*), started with the given hint
\* (the code starts with 0)
devide_buffers_helper_queue(owners, hint, n, ub) ==
    devide_queue_loop([k \in 1 .. Len(owners) |-> k], owners,
                      [i \in 0 .. MAX_NUM_RING_RESOURCES |-> <<>>], hint, n, ub)

\* the sequence of the buckets i .. n - 1 handed to a destination that
\* satisfies want (accepted by the member, or refused and put to the pool)
RECURSIVE reclaim_loop(_, _, _, _, _)
reclaim_loop(buckets, accept, want, i, n) ==
    IF i >= n THEN <<>>
    ELSE (IF buckets[i] # <<>> /\ accept[i] = want THEN buckets[i] ELSE <<>>)
         \o reclaim_loop(buckets, accept, want, i + 1, n)

\* ring_bond::reclaim_recv_buffers: accept[i] is the result of member i's
\* reclaim_recv_buffers. toMember: the buffers the members took, toPool: the
\* buffers put to g_buffer_pool_rx
reclaim_recv_buffers(owners, accept, n, ub) ==
    LET buckets == devide_buffers_helper_queue(owners, 0, n, ub)
    IN  [shape |-> "queue",
         buckets |-> buckets,
         toMember |-> reclaim_loop(buckets, accept, TRUE, 0, n),
         toPool |-> reclaim_loop(buckets, accept, FALSE, 0, n) \o buckets[n],
         oob |-> n >= MAX_NUM_RING_RESOURCES,
         ret |-> TRUE]

\* the descriptors of an input chain 1 -> 2 -> ... -> K given to a release
ChainHeap(owners) ==
    [b \in 1 .. Len(owners) |->
        [owner |-> owners[b],
         next |-> IF b < Len(owners) THEN b + 1 ELSE NULL,
         where |-> "given"]]

\* a call of reclaim_recv_buffers on the input queue
ReclaimRecvBuffers(accept, ub) ==
    /\ rtOut = RouteNone
    /\ rtOut' = reclaim_recv_buffers(rt, accept, m_n_num_resources, ub)
    /\ UNCHANGED <<bondVars, rt, hashVars, mpVars, modVars, profVars>>

\* a call of mem_buf_tx_release on the input chain
MemBufTxRelease ==
    /\ rtOut = RouteNone
    /\ LET r == mem_buf_tx_release(ChainHeap(rt), IF rt = <<>> THEN NULL ELSE 1,
                                   m_n_num_resources)
       IN  rtOut' = [shape |-> "chain", heap |-> r.heap, got |-> r.got,
                     pooled |-> r.pooled]
    /\ UNCHANGED <<bondVars, rt, hashVars, mpVars, modVars, profVars>>

\* --------------------------------------------------- ring_bond::generate_id
\* A uint32_t is kept as its two 16-bit halves [hi, lo].
RECURSIVE Xor(_, _)
Xor(a, b) ==
    IF a = 0 THEN b
    ELSE IF b = 0 THEN a
    ELSE ((a + b) % 2) + (2 * Xor(a \div 2, b \div 2))

Word(v) == [hi |-> 0, lo |-> v]
XorW(x, y) == [hi |-> Xor(x.hi, y.hi), lo |-> Xor(x.lo, y.lo)]
Shr16(x) == [hi |-> 0, lo |-> x.hi]
Shr8(x) == [hi |-> x.hi \div 256,
            lo |-> ((x.hi % 256) * 256) + (x.lo \div 256)]
\* hash % n on the 32-bit value hi * 2^16 + lo
ModW(x, n) == (((x.hi % n) * (65536 % n)) + (x.lo % n)) % n

\* htons on a little-endian host: the two bytes swapped
htons(x) == ((x % 256) * 256) + (x \div 256)

\* net_device_val::bond_xmit_hash_policy, in the order of its declaration
XhpPolicies == <<"XHP_LAYER_2", "XHP_LAYER_3_4", "XHP_LAYER_2_3",
                 "XHP_ENCAP_2_3", "XHP_ENCAP_3_4">>
XhpRank(policy) == CHOOSE k \in DOMAIN XhpPolicies : XhpPolicies[k] = policy

\* hash ^= (hash >> 16); hash ^= (hash >> 8)
Fold(h) ==
    LET h1 == XorW(h, Shr16(h)) IN XorW(h1, Shr8(h1))

\* mutant: the hash is returned without the reduction modulo N
generate_id_no_mod(type, policy, n, in) ==
    IF type # "LAG_8023ad" THEN 0
    ELSE Xor(Xor(in.dst_mac5, in.src_mac5), in.eth_proto)

\* mutant: the ethertype of an 802.1Q frame is never replaced
generate_id_outer(type, policy, n, in) ==
    IF type # "LAG_8023ad" THEN 0
    ELSE
      LET l2 == Word(Xor(Xor(in.dst_mac5, in.src_mac5), in.eth_proto))
          ips == XorW(in.dst_ip, in.src_ip)
      IN  IF in.eth_proto # htons(ETH_P_IP) THEN ModW(l2, n)
          ELSE CASE policy = "XHP_LAYER_2" -> ModW(l2, n)
                 [] policy \in {"XHP_LAYER_2_3", "XHP_ENCAP_2_3"} ->
                      ModW(Fold(XorW(l2, ips)), n)
                 [] policy \in {"XHP_LAYER_3_4", "XHP_ENCAP_3_4"} ->
                      ModW(Fold(XorW([hi |-> in.dst_port, lo |-> in.src_port],
                                     ips)), n)
                 [] OTHER -> 0

\* mutant: the second fold shifts by 16 again
generate_id_fold16(type, policy, n, in) ==
    IF type # "LAG_8023ad" THEN 0
    ELSE
      LET eth_proto == IF /\ XhpRank(policy) > XhpRank("XHP_LAYER_2_3")
                          /\ in.eth_proto = htons(ETH_P_8021Q)
                       THEN in.encap_proto ELSE in.eth_proto
          l2 == Word(Xor(Xor(in.dst_mac5, in.src_mac5), eth_proto))
          ips == XorW(in.dst_ip, in.src_ip)
          h23 == XorW(XorW(l2, ips), Shr16(XorW(l2, ips)))
          p34 == XorW([hi |-> in.dst_port, lo |-> in.src_port], ips)
          h34 == XorW(p34, Shr16(p34))
      IN  IF eth_proto # htons(ETH_P_IP) THEN ModW(l2, n)
          ELSE CASE policy = "XHP_LAYER_2" -> ModW(l2, n)
                 [] policy \in {"XHP_LAYER_2_3", "XHP_ENCAP_2_3"} ->
                      ModW(XorW(h23, Shr16(h23)), n)
                 [] policy \in {"XHP_LAYER_3_4", "XHP_ENCAP_3_4"} ->
                      ModW(XorW(h34, Shr16(h34)), n)
                 [] OTHER -> 0

\* ring_bond::generate_id; in: [src_mac5, dst_mac5: last byte of the MACs,
\* eth_proto, encap_proto, src_port, dst_port: 16 bits in network order,
\* src_ip, dst_ip: 32 bits as halves]
generate_id(type, policy, n, in) ==
    IF type # "LAG_8023ad" THEN 0
    ELSE
      LET eth_proto == IF /\ XhpRank(policy) > XhpRank("XHP_LAYER_2_3")
                          /\ in.eth_proto = htons(ETH_P_8021Q)
                       THEN in.encap_proto ELSE in.eth_proto
          l2 == Word(Xor(Xor(in.dst_mac5, in.src_mac5), eth_proto))
          ips == XorW(in.dst_ip, in.src_ip)
      IN  IF eth_proto # htons(ETH_P_IP) THEN ModW(l2, n)
          ELSE CASE policy = "XHP_LAYER_2" -> ModW(l2, n)
                 [] policy \in {"XHP_LAYER_2_3", "XHP_ENCAP_2_3"} ->
                      ModW(Fold(XorW(l2, ips)), n)
                 [] policy \in {"XHP_LAYER_3_4", "XHP_ENCAP_3_4"} ->
                      ModW(Fold(XorW([hi |-> in.dst_port, lo |-> in.src_port],
                                     ips)), n)
                 [] OTHER -> 0

\* the inputs a caller passes: IP, 802.1Q-tagged and ARP frames, addresses
\* and ports with high and low bits set
HashInputs ==
    [src_mac5 : {1, 255}, dst_mac5 : {0},
     eth_proto : {htons(ETH_P_IP), htons(ETH_P_8021Q), htons(2054)},
     encap_proto : {htons(ETH_P_IP), htons(2054)},
     src_ip : {[hi |-> 256, lo |-> 10], [hi |-> 65535, lo |-> 65535]},
     dst_ip : {[hi |-> 513, lo |-> 43200]},
     src_port : {0, 65535}, dst_port : {32769}]

HashNone == [called |-> FALSE]
HashIdle ==
    /\ m_xmit_hash_policy = "XHP_LAYER_2"
    /\ hashLast = HashNone
    /\ hashPrev = HashNone

\* a call of generate_id; the two latest calls are remembered
GenerateId(in) ==
    /\ hashPrev = HashNone
    /\ hashPrev' = hashLast
    /\ hashLast' = [called |-> TRUE, in |-> in,
                    id |-> generate_id(m_type, m_xmit_hash_policy,
                                       m_n_num_resources, in)]
    /\ UNCHANGED <<bondVars, routeVars, m_xmit_hash_policy, mpVars, modVars,
                   profVars>>

\* -------------------------------------------------- cq_mgr_mp::poll_mp_cq
\* the multi-packet receive queue as create_resources sets it up
m_pow_stride_size == 64
m_pow_strides_num == 2
m_wq_count == 2
\* m_ibv_rx_sg_array[wq].addr: the work queues lie one after the other in the
\* registered buffer
SgAddr(wq) == 4096 + (wq * m_pow_strides_num * m_pow_stride_size)

VMA_MP_RQ_BAD_PACKET == "VMA_MP_RQ_BAD_PACKET"
IBV_EXP_CQ_RX_TCP_UDP_CSUM_OK == "IBV_EXP_CQ_RX_TCP_UDP_CSUM_OK"
IBV_EXP_CQ_RX_IP_CSUM_OK == "IBV_EXP_CQ_RX_IP_CSUM_OK"
\* a flags word is the set of its bits
UDP_OK_FLAGS == {IBV_EXP_CQ_RX_IP_CSUM_OK, IBV_EXP_CQ_RX_TCP_UDP_CSUM_OK}

\* the four bytes of a 32-bit value in network order, and back
htonl(w) == <<w.hi \div 256, w.hi % 256, w.lo \div 256, w.lo % 256>>
ntohl(b) == [hi |-> (b[1] * 256) + b[2], lo |-> (b[3] * 256) + b[4]]
ntohs(x) == ((x % 256) * 256) + (x \div 256)

\* a completion record as the hardware writes it: byte_cnt holds the filler
\* bit (31), the stride count (30..16) and the byte count (15..0)
Cqe(opcode, filler, strides, bytes, wqe, l3, l4) ==
    [opcode |-> opcode,
     byte_cnt |-> htonl([hi |-> (IF filler THEN 32768 ELSE 0) + strides,
                         lo |-> bytes]),
     wqe_counter |-> htons(wqe),
     l3_ok |-> l3, l4_ok |-> l4]

\* cq_mgr_mlx5::check_cqe: the oldest record the hardware has written and the
\* consumer has not consumed, none when the queue is empty
check_cqe(cqes) == IF cqes = <<>> THEN <<>> ELSE <<Head(cqes)>>

\* mutant: an empty poll advances the consumption index
poll_mp_cq_empty_counts(cqes, cons_index, size, strides_used, offset, flags) ==
    [ret |-> 0, ready |-> FALSE, size |-> size,
     strides_used |-> strides_used, offset |-> offset, flags |-> flags,
     cqes |-> cqes, cons_index |-> cons_index + 1]

\* cq_mgr_mp::poll_mp_cq when check_cqe finds no record: the body of
\* if (likely(cqe)) is skipped
poll_mp_cq_empty(cqes, cons_index, size, strides_used, offset, flags) ==
    [ret |-> 0, ready |-> FALSE, size |-> size,
     strides_used |-> strides_used, offset |-> offset, flags |-> flags,
     cqes |-> cqes, cons_index |-> cons_index]

\* mutant: wqe_counter is used as stored, without ntohs
poll_mp_cq_no_ntohs(cqes, cons_index, size, strides_used, offset, flags) ==
    LET found == check_cqe(cqes) IN
    IF found = <<>>
    THEN poll_mp_cq_empty(cqes, cons_index, size, strides_used, offset, flags)
    ELSE
      LET cqe == found[1] IN
      IF cqe.opcode # "MLX5_CQE_RESP_SEND"
      THEN [ret |-> -1, ready |-> TRUE, size |-> size,
            strides_used |-> strides_used, offset |-> offset,
            flags |-> flags \cup {VMA_MP_RQ_BAD_PACKET},
            cqes |-> cqes, cons_index |-> cons_index]
      ELSE
        LET byte_strides == ntohl(cqe.byte_cnt)
            strides1 == strides_used + (byte_strides.hi % 32768)
            csum == (IF cqe.l4_ok THEN {IBV_EXP_CQ_RX_TCP_UDP_CSUM_OK} ELSE {})
                    \cup (IF cqe.l3_ok THEN {IBV_EXP_CQ_RX_IP_CSUM_OK} ELSE {})
            out == IF byte_strides.hi < 32768
                   THEN IF csum # UDP_OK_FLAGS
                        THEN [size |-> 1,
                              offset |-> cqe.wqe_counter * m_pow_stride_size,
                              flags |-> csum \cup {VMA_MP_RQ_BAD_PACKET}]
                        ELSE [size |-> byte_strides.lo,
                              offset |-> cqe.wqe_counter * m_pow_stride_size,
                              flags |-> csum]
                   ELSE [size |-> 1, offset |-> offset,
                         flags |-> {VMA_MP_RQ_BAD_PACKET}]
        IN  [ret |-> 0, ready |-> TRUE, size |-> out.size,
             strides_used |-> strides1, offset |-> out.offset,
             flags |-> out.flags,
             \* increment_hw_filds
             cqes |-> Tail(cqes), cons_index |-> cons_index + 1]

\* cq_mgr_mp::poll_mp_cq with the values the reference parameters have on
\* entry; the result holds their values on return, the queue and the
\* consumption index
poll_mp_cq(cqes, cons_index, size, strides_used, offset, flags) ==
    LET found == check_cqe(cqes) IN
    IF found = <<>>
    THEN poll_mp_cq_empty(cqes, cons_index, size, strides_used, offset, flags)
    ELSE
      LET cqe == found[1] IN
      IF cqe.opcode # "MLX5_CQE_RESP_SEND"
      THEN [ret |-> -1, ready |-> TRUE, size |-> size,
            strides_used |-> strides_used, offset |-> offset,
            flags |-> flags \cup {VMA_MP_RQ_BAD_PACKET},
            cqes |-> cqes, cons_index |-> cons_index]
      ELSE
        LET byte_strides == ntohl(cqe.byte_cnt)
            strides1 == strides_used + (byte_strides.hi % 32768)
            csum == (IF cqe.l4_ok THEN {IBV_EXP_CQ_RX_TCP_UDP_CSUM_OK} ELSE {})
                    \cup (IF cqe.l3_ok THEN {IBV_EXP_CQ_RX_IP_CSUM_OK} ELSE {})
            out == IF byte_strides.hi < 32768
                   THEN IF csum # UDP_OK_FLAGS
                        THEN [size |-> 1,
                              offset |-> ntohs(cqe.wqe_counter) * m_pow_stride_size,
                              flags |-> csum \cup {VMA_MP_RQ_BAD_PACKET}]
                        ELSE [size |-> byte_strides.lo,
                              offset |-> ntohs(cqe.wqe_counter) * m_pow_stride_size,
                              flags |-> csum]
                   ELSE [size |-> 1, offset |-> offset,
                         flags |-> {VMA_MP_RQ_BAD_PACKET}]
        IN  [ret |-> 0, ready |-> TRUE, size |-> out.size,
             strides_used |-> strides1, offset |-> out.offset,
             flags |-> out.flags,
             \* increment_hw_filds
             cqes |-> Tail(cqes), cons_index |-> cons_index + 1]

\* what a decoder call is remembered by: the record it found, the counters
\* before and after, and what it returned
PollLog(cqes, cons_index, strides_used, size, offset, flags, r) ==
    [ready |-> r.ready,
     offset_before |-> offset, offset |-> r.offset, flags_before |-> flags,
     cqe |-> check_cqe(cqes),
     index_before |-> cons_index, index_after |-> r.cons_index,
     strides_before |-> strides_used, strides_after |-> r.strides_used,
     size_before |-> size, size |-> r.size, flags |-> r.flags, ret |-> r.ret]

\* ---------------------------------------------------------- ring_eth_cb
\* The consumer during a call is the record c: the completion queue (cqes,
\* idx), the members m_stride_counter (stride), m_curr_wq (wq), m_curr_d_addr
\* (d_addr), m_curr_packets (packets), m_curr_size (size), and what the call
\* did so far: the decoder calls (polls) and the work queues posted (posted).

\* ring_eth_cb::reload_wq
reload_wq(c) ==
    [c EXCEPT !.posted = Append(@, c.wq),
              !.wq = (c.wq + 1) % m_wq_count,
              !.stride = 0]

\* m_p_cq_mgr_rx->poll_mp_cq(size, m_stride_counter, offset, flags, cqe64)
CallPoll(c, size, offset, flags) ==
    LET r == poll_mp_cq(c.cqes, c.idx, size, c.stride, offset, flags)
    IN  [r |-> r,
         c |-> [c EXCEPT !.cqes = r.cqes, !.idx = r.cons_index,
                         !.stride = r.strides_used,
                         !.polls = Append(@, PollLog(c.cqes, c.idx, c.stride,
                                                     size, offset, flags,
                                                     r))]]

\* ring_eth_cb::mp_loop(limit): mp_loop is the head of the while loop,
\* mp_loop_body what an iteration does with the result p of its decoder
\* call; offset is the local the decoder writes to
RECURSIVE mp_loop(_, _, _)
RECURSIVE mp_loop_body(_, _)
mp_loop(c, limit, offset) ==
    IF c.packets >= limit THEN [c |-> c, ret |-> 1]
    ELSE mp_loop_body(CallPoll(c, 0, offset, {}), limit)

mp_loop_count(c, size) == [c EXCEPT !.size = @ + size, !.packets = @ + 1]

mp_loop_body(p, limit) ==
    IF p.r.ret = -1 THEN [c |-> p.c, ret |-> 2]
    ELSE IF p.r.size = 0 THEN [c |-> p.c, ret |-> 0]
    ELSE IF VMA_MP_RQ_BAD_PACKET \in p.r.flags
    THEN [c |-> IF p.c.stride >= m_pow_strides_num THEN reload_wq(p.c)
                ELSE p.c,
          ret |-> 2]
    ELSE IF p.c.stride >= m_pow_strides_num
    THEN [c |-> reload_wq(mp_loop_count(p.c, p.r.size)), ret |-> 2]
    ELSE mp_loop(mp_loop_count(p.c, p.r.size), limit, p.r.offset)

NoCompletion == [written |-> FALSE]

\* cyclic_buffer_read, a return without writing the completion
cbr_return(c, ret, errno_set) ==
    [c |-> c, ret |-> ret, errno |-> errno_set, completion |-> NoCompletion]

\* cyclic_buffer_read, the tail: the completion is written from the
\* accumulation members and m_curr_d_addr is cleared
cbr_completion(c) ==
    [c |-> [c EXCEPT !.d_addr = 0], ret |-> 0, errno |-> 0,
     completion |-> [written |-> TRUE, payload_ptr |-> c.d_addr,
                     payload_length |-> c.size, packets |-> c.packets]]

\* cyclic_buffer_read, after mp_loop(min) returned l1
cbr_after_min(l1, max) ==
    IF l1.ret = 1 THEN cbr_completion(mp_loop(l1.c, max, 0).c)
    ELSE IF l1.ret = 0 THEN cbr_return(l1.c, 0, 0)
    ELSE cbr_completion(l1.c)

\* cyclic_buffer_read, a good first record: capture or accumulate
cbr_capture(c, r) ==
    IF c.d_addr = 0
    THEN [c EXCEPT !.d_addr = SgAddr(c.wq) + r.offset,
                   !.packets = 1, !.size = r.size]
    ELSE [c EXCEPT !.packets = @ + 1, !.size = @ + r.size]

\* cyclic_buffer_read, after the first record was counted
cbr_after_capture(c, min, max) ==
    IF c.stride >= m_pow_strides_num THEN cbr_completion(reload_wq(c))
    ELSE cbr_after_min(mp_loop(c, min, 0), max)

\* cyclic_buffer_read, after the first decoder call returned p
cbr_first(p, min, max) ==
    IF p.r.size = 0 THEN cbr_return(p.c, 0, 0)
    ELSE IF p.r.ret = -1 THEN cbr_return(p.c, -1, 0)
    ELSE IF VMA_MP_RQ_BAD_PACKET \notin p.r.flags
    THEN cbr_after_capture(cbr_capture(p.c, p.r), min, max)
    ELSE cbr_completion(p.c)

\* mutant: the arguments are not checked
cyclic_buffer_read_no_sanity(c, min, max, flags) ==
    cbr_first(CallPoll(c, 0, 0, {}), min, max)

\* ring_eth_cb::cyclic_buffer_read: [c: the consumer on return, ret, errno
\* (0: not set), completion: the fields written, if any]
cyclic_buffer_read(c, min, max, flags) ==
    IF min > max \/ max = 0 \/ flags # MSG_DONTWAIT
    THEN cbr_return(c, -1, EINVAL)
    ELSE cbr_first(CallPoll(c, 0, 0, {}), min, max)

\* the records the hardware writes: packets that fit one stride or fill the
\* work queue, an empty packet, filler records, packets with a failed
\* checksum, and records of another operation type
CqeInputs ==
    {Cqe("MLX5_CQE_RESP_SEND", FALSE, 1, 60, 1, TRUE, TRUE),
     Cqe("MLX5_CQE_RESP_SEND", FALSE, m_pow_strides_num, 100, 0, TRUE, TRUE),
     Cqe("MLX5_CQE_RESP_SEND", FALSE, 1, 0, 0, TRUE, TRUE),
     Cqe("MLX5_CQE_RESP_SEND", TRUE, 1, 60, 0, TRUE, TRUE),
     Cqe("MLX5_CQE_RESP_SEND", TRUE, 0, 0, 0, FALSE, FALSE),
     Cqe("MLX5_CQE_RESP_SEND", FALSE, 1, 60, 0, TRUE, FALSE),
     Cqe("MLX5_CQE_RESP_SEND", FALSE, 1, 60, 0, FALSE, TRUE),
     Cqe("MLX5_CQE_RESP_ERR", FALSE, 1, 60, 0, TRUE, TRUE),
     Cqe("MLX5_CQE_RESP_ERR", TRUE, 1, 60, 0, TRUE, TRUE)}

\* the arguments a caller passes: every min and max up to the bound with
\* MSG_DONTWAIT, and a call in blocking mode
ReadArgs ==
    [min : 0 .. MaxWant, max : 0 .. MaxWant, flags : {MSG_DONTWAIT}]
    \cup [min : {1}, max : {1}, flags : {0}]

MpNone == [op |-> "none"]
NoTotals == [good_packets |-> 0, good_bytes |-> 0, emitted_packets |-> 0,
             emitted_bytes |-> 0]
\* ring_eth_cb::ring_eth_cb, with an empty completion queue
MpIdle ==
    /\ m_cqes = <<>>
    /\ m_cq_cons_index = 0
    /\ m_stride_counter = 0
    /\ m_curr_wq = 0
    /\ m_curr_d_addr = 0
    /\ m_curr_packets = 0
    /\ m_curr_size = 0
    /\ mpLast = MpNone
    /\ mpTotals = NoTotals

\* the hardware writes one more completion record
HwPost(cqe) ==
    /\ m_cq_cons_index + Len(m_cqes) < MaxCqes
    /\ m_cqes' = Append(m_cqes, cqe)
    /\ UNCHANGED <<bondVars, routeVars, hashVars, modVars, profVars,
                   m_cq_cons_index,
                   m_stride_counter, m_curr_wq, m_curr_d_addr, m_curr_packets,
                   m_curr_size, mpLast, mpTotals>>

\* the members and the record of a call, from the result res of the call
\* made in the state c0
CyclicBufferReadDone(c0, res, min, max, flags) ==
    /\ m_cqes' = res.c.cqes
    /\ m_cq_cons_index' = res.c.idx
    /\ m_stride_counter' = res.c.stride
    /\ m_curr_wq' = res.c.wq
    /\ m_curr_d_addr' = res.c.d_addr
    /\ m_curr_packets' = res.c.packets
    /\ m_curr_size' = res.c.size
    /\ mpLast' = [op |-> "cyclic_buffer_read", min |-> min, max |-> max,
                  flags |-> flags, ret |-> res.ret, errno |-> res.errno,
                  completion |-> res.completion, polls |-> res.c.polls,
                  posted |-> res.c.posted,
                  before |-> [d_addr |-> c0.d_addr, packets |-> c0.packets,
                              size |-> c0.size, stride |-> c0.stride,
                              wq |-> c0.wq, idx |-> c0.idx]]

\* the consumer at the start of a call
Consumer ==
    [cqes |-> m_cqes, idx |-> m_cq_cons_index, stride |-> m_stride_counter,
     wq |-> m_curr_wq, d_addr |-> m_curr_d_addr, packets |-> m_curr_packets,
     size |-> m_curr_size, polls |-> <<>>, posted |-> <<>>]

\* a call of cyclic_buffer_read(completion, min, max, flags)
CyclicBufferRead(min, max, flags) ==
    /\ CyclicBufferReadDone(Consumer,
                            cyclic_buffer_read(Consumer, min, max, flags),
                            min, max, flags)
    /\ UNCHANGED <<bondVars, routeVars, hashVars, modVars, profVars,
                   mpTotals>>

\* a record the decoder reported as a packet: consumed, not bad, of a size
\* other than 0
GoodRecord(d) ==
    /\ d.ready
    /\ d.ret = 0
    /\ VMA_MP_RQ_BAD_PACKET \notin d.flags
    /\ d.size > 0

\* the packets and the bytes of the good records among the decoder calls polls
RECURSIVE good_packets(_)
good_packets(polls) ==
    IF polls = <<>> THEN 0
    ELSE (IF GoodRecord(Head(polls)) THEN 1 ELSE 0) + good_packets(Tail(polls))
RECURSIVE good_bytes(_)
good_bytes(polls) ==
    IF polls = <<>> THEN 0
    ELSE (IF GoodRecord(Head(polls)) THEN Head(polls).size ELSE 0)
         + good_bytes(Tail(polls))

\* the totals after a call with the result res: what the decoder handed over
\* and what the completion, if one was written, reports
CountedTotals(t, res) ==
    [good_packets |-> t.good_packets + good_packets(res.c.polls),
     good_bytes |-> t.good_bytes + good_bytes(res.c.polls),
     emitted_packets |-> t.emitted_packets
        + (IF res.completion.written THEN res.completion.packets ELSE 0),
     emitted_bytes |-> t.emitted_bytes
        + (IF res.completion.written THEN res.completion.payload_length ELSE 0)]

\* a call of cyclic_buffer_read(completion, min, max, flags) by an application
\* that adds up what the completions report
CyclicBufferReadCounted(min, max, flags) ==
    /\ CyclicBufferReadDone(Consumer,
                            cyclic_buffer_read(Consumer, min, max, flags),
                            min, max, flags)
    /\ mpTotals' = CountedTotals(mpTotals,
                                 cyclic_buffer_read(Consumer, min, max, flags))
    /\ UNCHANGED <<bondVars, routeVars, hashVars, modVars, profVars>>

\* ------------------------------------------------------------ construction
Unlocked == [owner |-> 0, count |-> 0]
LocalIdle == [op |-> "none", info |-> <<>>, i |-> 0, prev |-> NULL]
OpNone == [op |-> "none", thread |-> 0, id |-> 0, buf |-> 0, active |-> NULL,
           owner |-> NULL, sentTo |-> NULL, released |-> <<>>, ret |-> 0,
           busy |-> FALSE, called |-> <<>>, tap |-> FALSE, rxOwner |-> 0,
           res |-> <<>>, tapRes |-> 0, up |-> <<>>, tap_fd |-> 0,
           is_tcp |-> FALSE, rc |-> 0, sent |-> FALSE]

\* ring_bond::ring_bond followed by create_slave_list(active_slaves): the
\* members are created up when active, and the active set is gap-closed
InitBond(ringCounts, bufChoices) ==
    /\ m_n_num_resources \in ringCounts
    /\ m_type \in BondTypes
    /\ \E active_slaves \in [Slots(m_n_num_resources) -> BOOLEAN] :
          /\ m_active_rings = create_slave_list(active_slaves, m_n_num_resources)
          /\ up = active_slaves
    /\ m_lock_ring_rx = Unlocked
    /\ m_lock_ring_tx = Unlocked
    /\ pc = [t \in Threads |-> "idle"]
    /\ local = [t \in Threads |-> LocalIdle]
    /\ errno = [t \in Threads |-> 0]
    /\ lastOp = OpNone
    /\ bufs \in [Bufs -> bufChoices]
    /\ flowRule = [i \in Slots(m_n_num_resources) |-> FALSE]

\* a bond of the given size and mode with every member up and nothing going on
InitBondAllUp(ringCounts, types) ==
    /\ m_n_num_resources \in ringCounts
    /\ m_type \in types
    /\ m_active_rings = create_slave_list([i \in Members |-> TRUE],
                                          m_n_num_resources)
    /\ up = [i \in Members |-> TRUE]
    /\ m_lock_ring_rx = Unlocked
    /\ m_lock_ring_tx = Unlocked
    /\ pc = [t \in Threads |-> "idle"]
    /\ local = [t \in Threads |-> LocalIdle]
    /\ errno = [t \in Threads |-> 0]
    /\ lastOp = OpNone
    /\ bufs = [b \in Bufs |-> PoolBuf]
    /\ flowRule = [i \in Members |-> FALSE]

\* the routing model at rest, in the specifications that do not use it
RouteIdle == rt = <<>> /\ rtOut = RouteNone

\* ------------------------------------------------ whole-handler operations

\* ring_bond::restart run to completion by one thread (both locks are taken
\* on entry and released on exit)
Restart(info) ==
    /\ m_lock_ring_rx = Unlocked /\ m_lock_ring_tx = Unlocked
    /\ m_active_rings' = restart_active(m_active_rings, info, m_n_num_resources)
    /\ up' = info
    /\ lastOp' = [OpNone EXCEPT !.op = "restart"]
    /\ UNCHANGED <<m_n_num_resources, m_type, m_lock_ring_rx, m_lock_ring_tx,
                   pc, local, errno, bufs, flowRule, nonBondVars>>

\* the member states a reconfiguration may be called with: those of the
\* latest configuration with at most MaxFlips members changed
RECURSIVE FlipSets(_)
FlipSets(k) ==
    IF k = 0 THEN {{}}
    ELSE LET P == FlipSets(k - 1)
         IN  P \cup {F \cup {i} : F \in P, i \in Members}

RingInfos == {[i \in Members |-> IF i \in F THEN ~up[i] ELSE up[i]] :
                 F \in FlipSets(MaxFlips)}

\* the ids a caller transmits with: generate_id gives 0 unless LAG_8023ad
TxIds == IF m_type = "LAG_8023ad" THEN Members ELSE {0}

\* ring_bond::mem_buf_tx_get(id, b_block, n): the active member of id, or
\* m_bond_rings[id] when there is none, hands out a chain of the free
\* descriptors S, which it owns from then on
MemBufTxGet(id, S) ==
    /\ S # {} /\ \A b \in S : bufs[b].where = "pool"
    /\ LET active_ring == m_active_rings[id]
           ring == IF active_ring # NULL THEN active_ring ELSE id
           After(b) == {c \in S : c > b}
       IN  bufs' = [b \in Bufs |->
                     IF b \in S
                     THEN [owner |-> ring,
                           next |-> IF After(b) = {} THEN NULL
                                    ELSE CHOOSE c \in After(b) :
                                            \A d \in After(b) : c <= d,
                           where |-> "held"]
                     ELSE bufs[b]]
    /\ lastOp' = [OpNone EXCEPT !.op = "get", !.id = id]
    /\ UNCHANGED <<m_n_num_resources, m_type, m_active_rings, up,
                   m_lock_ring_rx, m_lock_ring_tx, pc, local, errno, flowRule, nonBondVars>>

\* ring_bond::send_ring_buffer(id, wqe of descriptor b)
SendRingBuffer(id, b) ==
    /\ bufs[b].where = "held"
    /\ LET r == send_ring_buffer([bufs EXCEPT ![b].where = "given"],
                                 m_active_rings, id, b, m_n_num_resources)
       IN  /\ bufs' = r.heap
           /\ lastOp' = [OpNone EXCEPT !.op = "send", !.id = id, !.buf = b,
                                       !.active = m_active_rings[id],
                                       !.owner = bufs[b].owner,
                                       !.sentTo = r.sentTo,
                                       !.released = r.released]
    /\ UNCHANGED <<m_n_num_resources, m_type, m_active_rings, up,
                   m_lock_ring_rx, m_lock_ring_tx, pc, local, errno, flowRule, nonBondVars>>

\* ring_bond::mem_buf_desc_return_single_to_owner_tx: a sent descriptor comes
\* back from its owner's completion handling
ReturnSingleToOwnerTx(b) ==
    /\ bufs[b].where = "hw"
    /\ bufs' = [bufs EXCEPT ![b] = PoolBuf]
    /\ lastOp' = [OpNone EXCEPT !.op = "return_tx", !.buf = b]
    /\ UNCHANGED <<m_n_num_resources, m_type, m_active_rings, up,
                   m_lock_ring_rx, m_lock_ring_tx, pc, local, errno, flowRule, nonBondVars>>

\* ------------------------------------------------------------------ locks
\* m_lock_ring_rx / m_lock_ring_tx are recursive: restart calls
\* request_notification, and the tap-backed attach_flow calls
\* ring_bond::attach_flow, with the lock already held by the caller
CanLock(l, t) == l.owner \in {0, t}
Lock(l, t) == [owner |-> t, count |-> l.count + 1]
Unlock(l) == IF l.count <= 1 THEN Unlocked ELSE [l EXCEPT !.count = @ - 1]

\* --------------------------------------------- flow attach / detach fan-out

\* mutant: ret = ret && member->attach_flow(), which stops calling members
\* after the first failure
RECURSIVE flow_loop_short_circuit(_, _, _, _, _, _, _)
flow_loop_short_circuit(rules, res, op, i, ret, called, n) ==
    IF i >= n \/ ~ret THEN [rules |-> rules, ret |-> ret, called |-> called]
    ELSE flow_loop_short_circuit(
            IF res[i] THEN [rules EXCEPT ![i] = (op = "attach")] ELSE rules,
            res, op, i + 1, ret /\ res[i], Append(called, i), n)

\* the member loop of ring_bond::attach_flow / detach_flow. res[i] is the
\* result of member i, which registers (removes) the rule when it succeeds
RECURSIVE flow_loop(_, _, _, _, _, _, _)
flow_loop(rules, res, op, i, ret, called, n) ==
    IF i >= n THEN [rules |-> rules, ret |-> ret, called |-> called]
    ELSE LET step_ret == res[i]
         IN  flow_loop(
                IF step_ret THEN [rules EXCEPT ![i] = (op = "attach")] ELSE rules,
                res, op, i + 1, ret /\ step_ret, Append(called, i), n)

\* attach_flow / detach_flow: m_lock_ring_rx.lock() (blocking)
FlowLock(t, op) ==
    /\ pc[t] = "idle"
    /\ CanLock(m_lock_ring_rx, t)
    /\ m_lock_ring_rx' = Lock(m_lock_ring_rx, t)
    /\ pc' = [pc EXCEPT ![t] = "flow"]
    /\ local' = [local EXCEPT ![t] = [LocalIdle EXCEPT !.op = op]]
    /\ lastOp' = [OpNone EXCEPT !.op = "lock", !.thread = t]
    /\ UNCHANGED <<m_n_num_resources, m_type, m_active_rings, up,
                   m_lock_ring_tx, errno, bufs, flowRule, nonBondVars>>

\* attach_flow / detach_flow: the member loop, unlock and return
FlowRun(t, res) ==
    /\ pc[t] = "flow"
    /\ LET r == flow_loop(flowRule, res, local[t].op, 0, TRUE, <<>>,
                          m_n_num_resources)
       IN  /\ flowRule' = r.rules
           /\ lastOp' = [OpNone EXCEPT !.op = local[t].op, !.thread = t,
                                       !.ret = IF r.ret THEN 1 ELSE 0,
                                       !.called = r.called, !.res = res,
                                       !.rxOwner = m_lock_ring_rx.owner]
    /\ m_lock_ring_rx' = Unlock(m_lock_ring_rx)
    /\ pc' = [pc EXCEPT ![t] = "idle"]
    /\ local' = [local EXCEPT ![t] = LocalIdle]
    /\ UNCHANGED <<m_n_num_resources, m_type, m_active_rings, up,
                   m_lock_ring_tx, errno, bufs, nonBondVars>>

\* the end of ring_bond_eth_netvsc::attach_flow / detach_flow, after the
\* member loop returned r: the message to the agent is sent for a TCP flow
\* that every member took, and its result rc decides; otherwise attach_flow
\* returns true and detach_flow returns ret
netvsc_flow_end(r, op, is_tcp, rc) ==
    IF r.ret /\ is_tcp
    THEN [rules |-> r.rules, called |-> r.called, sent |-> TRUE,
          ret |-> IF rc # 0 THEN FALSE
                  ELSE IF op = "attach" THEN TRUE ELSE r.ret]
    ELSE [rules |-> r.rules, called |-> r.called, sent |-> FALSE,
          ret |-> IF op = "attach" THEN TRUE ELSE r.ret]

\* ring_bond_eth_netvsc::attach_flow / detach_flow with the RX lock held
netvsc_flow(rules, op, tap_fd, res, is_tcp, rc, n) ==
    IF tap_fd < 0
    THEN [rules |-> rules, called |-> <<>>, sent |-> FALSE, ret |-> FALSE]
    ELSE netvsc_flow_end(flow_loop(rules, res, op, 0, TRUE, <<>>, n),
                         op, is_tcp, rc)

\* a call of the tap-backed attach_flow / detach_flow by thread t, run to
\* completion: auto_unlocker takes the RX lock (blocking) and releases it on
\* every return
NetvscFlow(t, op, tap_fd, res, is_tcp, rc) ==
    /\ pc[t] = "idle"
    /\ CanLock(m_lock_ring_rx, t)
    /\ LET r == netvsc_flow(flowRule, op, tap_fd, res, is_tcp, rc,
                            m_n_num_resources)
       IN  /\ flowRule' = r.rules
           /\ lastOp' = [OpNone EXCEPT !.op = "netvsc_" \o op, !.thread = t,
                                       !.ret = IF r.ret THEN 1 ELSE 0,
                                       !.called = r.called, !.res = res,
                                       !.tap_fd = tap_fd, !.is_tcp = is_tcp,
                                       !.rc = rc, !.sent = r.sent]
    /\ UNCHANGED <<m_n_num_resources, m_type, m_active_rings, up,
                   m_lock_ring_rx, m_lock_ring_tx, pc, local, errno, bufs,
                   nonBondVars>>

\* ------------------------------------------------------ polling and arming
PollOps == {"poll_rx", "drain", "wait", "arm_rx", "arm_tx"}
ArmOps == {"arm_rx", "arm_tx"}
PollResults == {-1, 0, 1}   \* what a member ring may return
TapResults == {0, 1}        \* poll_and_process_element_tap_rx: 0 on ring_bond

\* the value returned when the lock is busy
BusyRet(op) == IF op \in ArmOps THEN 1 ELSE IF op = "wait" THEN -1 ELSE 0

\* mutant: TX arming tries the RX lock
PollLockIsTxNever(op) == FALSE

\* the lock an operation tries: TX for request_notification(CQT_TX)
PollLockIsTx(op) == op = "arm_tx"

\* mutant: the member loop polls every member, up or not
RECURSIVE poll_loop_all(_, _, _, _, _, _, _)
poll_loop_all(upv, res, i, temp, ret, called, n) ==
    IF i >= n THEN [temp |-> temp, ret |-> ret, called |-> called]
    ELSE poll_loop_all(upv, res, i + 1, res[i],
                       IF res[i] > 0 THEN ret + res[i] ELSE ret,
                       Append(called, i), n)

\* the member loop of poll_and_process_element_rx, drain_and_proccess and
\* wait_for_notification_and_process_element
RECURSIVE poll_loop(_, _, _, _, _, _, _)
poll_loop(upv, res, i, temp, ret, called, n) ==
    IF i >= n THEN [temp |-> temp, ret |-> ret, called |-> called]
    ELSE IF upv[i]
         THEN poll_loop(upv, res, i + 1, res[i],
                        IF res[i] > 0 THEN ret + res[i] ELSE ret,
                        Append(called, i), n)
         ELSE poll_loop(upv, res, i + 1, temp, ret, called, n)

\* the member loop of request_notification
RECURSIVE arm_loop(_, _, _, _, _, _)
arm_loop(upv, res, i, ret, called, n) ==
    IF i >= n THEN [ret |-> ret, called |-> called]
    ELSE IF upv[i]
         THEN IF res[i] < 0
              THEN [ret |-> res[i], called |-> Append(called, i)]
              ELSE arm_loop(upv, res, i + 1, ret + res[i], Append(called, i), n)
         ELSE arm_loop(upv, res, i + 1, ret, called, n)

\* entry of a polling or arming operation: trylock; on failure errno = EBUSY
\* and the call returns at once, on success the lock is held
PollTry(t, op) ==
    /\ pc[t] = "idle"
    /\ LET isTx == PollLockIsTx(op)
           l == IF isTx THEN m_lock_ring_tx ELSE m_lock_ring_rx
       IN  IF ~CanLock(l, t)
           THEN /\ errno' = [errno EXCEPT ![t] = EBUSY]
                /\ lastOp' = [OpNone EXCEPT !.op = op, !.thread = t,
                                            !.busy = TRUE, !.ret = BusyRet(op)]
                /\ UNCHANGED <<m_lock_ring_rx, m_lock_ring_tx, pc, local>>
           ELSE /\ m_lock_ring_rx' = IF isTx THEN m_lock_ring_rx ELSE Lock(l, t)
                /\ m_lock_ring_tx' = IF isTx THEN Lock(l, t) ELSE m_lock_ring_tx
                /\ pc' = [pc EXCEPT ![t] = "polling"]
                /\ local' = [local EXCEPT ![t] = [LocalIdle EXCEPT !.op = op]]
                /\ lastOp' = [OpNone EXCEPT !.op = "lock", !.thread = t]
                /\ UNCHANGED errno
    /\ UNCHANGED <<m_n_num_resources, m_type, m_active_rings, up, bufs, flowRule,
                   nonBondVars>>

\* mutant: the error break of request_notification returns at once, with the
\* lock still held
PollRunLeak(t, tapRes, res) ==
    /\ pc[t] = "polling"
    /\ LET op == local[t].op
           isTx == PollLockIsTx(op)
           p == poll_loop(up, res, 0, 0, tapRes, <<>>, m_n_num_resources)
           a == arm_loop(up, res, 0, 0, <<>>, m_n_num_resources)
           leak == op \in ArmOps /\ a.ret < 0
       IN  /\ lastOp' = IF op \in ArmOps
                        THEN [OpNone EXCEPT !.op = op, !.thread = t,
                                            !.ret = a.ret, !.called = a.called]
                        ELSE [OpNone EXCEPT !.op = op, !.thread = t,
                                            !.ret = IF p.ret > 0 THEN p.ret
                                                    ELSE p.temp,
                                            !.called = p.called, !.tap = TRUE]
           /\ m_lock_ring_rx' = IF isTx \/ leak THEN m_lock_ring_rx
                                ELSE Unlock(m_lock_ring_rx)
           /\ m_lock_ring_tx' = IF isTx /\ ~leak THEN Unlock(m_lock_ring_tx)
                                ELSE m_lock_ring_tx
    /\ pc' = [pc EXCEPT ![t] = "idle"]
    /\ local' = [local EXCEPT ![t] = LocalIdle]
    /\ UNCHANGED <<m_n_num_resources, m_type, m_active_rings, up, errno, bufs,
                   flowRule, nonBondVars>>

\* body of a polling or arming operation with the lock held: the tap
\* pre-step (polling only), the loop over the up members, unlock, return
PollRun(t, tapRes, res) ==
    /\ pc[t] = "polling"
    /\ LET op == local[t].op
           isTx == PollLockIsTx(op)
           p == poll_loop(up, res, 0, 0, tapRes, <<>>, m_n_num_resources)
           a == arm_loop(up, res, 0, 0, <<>>, m_n_num_resources)
       IN  /\ lastOp' = IF op \in ArmOps
                        THEN [OpNone EXCEPT !.op = op, !.thread = t,
                                            !.ret = a.ret, !.called = a.called]
                        ELSE [OpNone EXCEPT !.op = op, !.thread = t,
                                            !.ret = IF p.ret > 0 THEN p.ret
                                                    ELSE p.temp,
                                            !.called = p.called, !.tap = TRUE]
           /\ m_lock_ring_rx' = IF isTx THEN m_lock_ring_rx
                                ELSE Unlock(m_lock_ring_rx)
           /\ m_lock_ring_tx' = IF isTx THEN Unlock(m_lock_ring_tx)
                                ELSE m_lock_ring_tx
    /\ pc' = [pc EXCEPT ![t] = "idle"]
    /\ local' = [local EXCEPT ![t] = LocalIdle]
    /\ UNCHANGED <<m_n_num_resources, m_type, m_active_rings, up, errno, bufs,
                   flowRule, nonBondVars>>

\* poll_and_process_element_rx, drain_and_proccess or
\* wait_for_notification_and_process_element run to completion by thread t:
\* trylock, the tap pre-step, the loop over the up members, unlock, return
PollAndProcess(t, op, tapRes, res) ==
    /\ pc[t] = "idle"
    /\ IF ~CanLock(m_lock_ring_rx, t)
       THEN /\ errno' = [errno EXCEPT ![t] = EBUSY]
            /\ lastOp' = [OpNone EXCEPT !.op = op, !.thread = t,
                                        !.busy = TRUE, !.ret = BusyRet(op)]
       ELSE LET p == poll_loop(up, res, 0, 0, tapRes, <<>>, m_n_num_resources)
            IN  /\ lastOp' = [OpNone EXCEPT !.op = op, !.thread = t,
                                            !.ret = IF p.ret > 0 THEN p.ret
                                                    ELSE p.temp,
                                            !.called = p.called, !.tap = TRUE,
                                            !.tapRes = tapRes, !.res = res,
                                            !.up = up]
                /\ UNCHANGED errno
    /\ UNCHANGED <<m_n_num_resources, m_type, m_active_rings, up,
                   m_lock_ring_rx, m_lock_ring_tx, pc, local, bufs, flowRule,
                   nonBondVars>>

\* ------------------------------------- restart: arming and moderation
\* safe_mce_sys().cq_moderation_period_usec / cq_moderation_count
cq_moderation_period_usec == 50
cq_moderation_count == 48
ModDefaults == [period |-> cq_moderation_period_usec,
                count |-> cq_moderation_count]
\* settings a member has after its own adaptive moderation changed them
ModAdapted == [period |-> 10, count |-> 5]
ModChoices == {ModDefaults, ModAdapted}

RsNone == [op |-> "none", returned |-> FALSE, crashed |-> FALSE]
\* the restart model at rest, in the specifications that do not use it
ModIdle ==
    /\ cq_moderation_enable = FALSE
    /\ m_cq_moderation_info = <<>>
    /\ rsLast = RsNone

\* what a dereference of the null currently_active may do: the process is
\* killed, or the stores and the call have no effect and restart goes on
NullDerefOutcomes == {"crash", "skipped"}

\* restart, lines 149-158: request_notification(CQT_RX) then (CQT_TX); the
\* trylock inside succeeds because restart holds both recursive locks; a
\* negative result is logged only. armRx[i] / armTx[i] is what member i
\* returns
restart_arm_events(rx, tx) ==
    [rx |-> rx, tx |-> tx,
     events |-> [k \in 1 .. Len(rx.called) |-> <<"arm_rx", rx.called[k]>>]
               \o [k \in 1 .. Len(tx.called) |-> <<"arm_tx", tx.called[k]>>]]

restart_arm(upv, armRx, armTx, n) ==
    restart_arm_events(arm_loop(upv, armRx, 0, 0, <<>>, n),
                       arm_loop(upv, armTx, 0, 0, <<>>, n))

\* ring_simple::modify_cq_moderation(period, count): the settings are pushed
\* to the hardware of the member
modify_cq_moderation(member, period, count) ==
    << <<"modify_cq_moderation", member, period, count>> >>

\* mutant: the new active member always gets the defaults
restart_moderation_defaults(active, mod, previously_active, type, enable, ub) ==
    IF type = "ACTIVE_BACKUP" /\ enable
    THEN IF active[0] = NULL
         THEN [mod |-> mod, events |-> <<>>, crashed |-> ub = "crash",
               null_deref |-> TRUE]
         ELSE [mod |-> [mod EXCEPT ![active[0]] = ModDefaults],
               events |-> << <<"moderation_copy", active[0]>> >>
                          \o modify_cq_moderation(active[0],
                                                  cq_moderation_period_usec,
                                                  cq_moderation_count),
               crashed |-> FALSE, null_deref |-> FALSE]
    ELSE [mod |-> mod, events |-> <<>>, crashed |-> FALSE,
          null_deref |-> FALSE]

\* restart, lines 160-174: in ACTIVE_BACKUP with moderation enabled the
\* settings of previously_active (or the defaults) are stored in
\* currently_active = m_active_rings[0], then modify_cq_moderation is called
\* on it with the defaults; ub is the outcome when currently_active is null
restart_moderation(active, mod, previously_active, type, enable, ub) ==
    IF type = "ACTIVE_BACKUP" /\ enable
    THEN LET currently_active == active[0] IN
         IF currently_active = NULL
         THEN [mod |-> mod, events |-> <<>>, crashed |-> ub = "crash",
               null_deref |-> TRUE]
         ELSE [mod |-> [mod EXCEPT ![currently_active] =
                          IF previously_active # NULL
                          THEN mod[previously_active] ELSE ModDefaults],
               events |-> << <<"moderation_copy", currently_active>> >>
                          \o modify_cq_moderation(currently_active,
                                                  cq_moderation_period_usec,
                                                  cq_moderation_count),
               crashed |-> FALSE, null_deref |-> FALSE]
    ELSE [mod |-> mod, events |-> <<>>, crashed |-> FALSE,
          null_deref |-> FALSE]

\* the steps of the member loop of restart, as events
restart_loop_events(info, n) ==
    [k \in 1 .. n |-> <<IF info[k - 1] THEN "start_active_qp_mgr"
                        ELSE "stop_active_qp_mgr", k - 1>>]

\* mutant: the arming is done after the moderation update
restart_result_arm_last(previously_active, closed, a, m, info, n) ==
    [active |-> closed, mod |-> m.mod,
     events |-> restart_loop_events(info, n)
                \o << <<"close_gaps_active_rings", 0>> >>
                \o m.events \o a.events,
     rx |-> a.rx, tx |-> a.tx, crashed |-> m.crashed,
     null_deref |-> m.null_deref,
     previously_active |-> previously_active]

\* restart, the outcome put together: a are the arming loops, m the
\* moderation update
restart_result(previously_active, closed, a, m, info, n) ==
    [active |-> closed, mod |-> m.mod,
     events |-> restart_loop_events(info, n)
                \o << <<"close_gaps_active_rings", 0>> >>
                \o a.events \o m.events,
     rx |-> a.rx, tx |-> a.tx, crashed |-> m.crashed,
     null_deref |-> m.null_deref,
     previously_active |-> previously_active]

\* restart, after the member loop and close_gaps_active_rings left closed
restart_tail(previously_active, closed, mod, info, armRx, armTx, type, enable, ub, n) ==
    restart_result(previously_active, closed,
                   restart_arm(info, armRx, armTx, n),
                   restart_moderation(closed, mod, previously_active, type,
                                      enable, ub),
                   info, n)

\* ring_bond::restart from m_lock_ring_tx.lock() to m_lock_ring_tx.unlock():
\* [active, mod, events: the steps in program order, rx, tx: the arming
\* loops, crashed, null_deref, previously_active]
restart(active, mod, info, armRx, armTx, type, enable, ub, n) ==
    restart_tail(active[0], restart_active(active, info, n), mod, info,
                 armRx, armTx, type, enable, ub, n)

\* the state after restart produced r
RestartFullDone(r, info, armRx, armTx) ==
    /\ m_active_rings' = r.active
    /\ m_cq_moderation_info' = r.mod
    /\ rsLast' = [op |-> "restart", returned |-> ~r.crashed,
                  crashed |-> r.crashed, null_deref |-> r.null_deref,
                  armRx |-> armRx, armTx |-> armTx,
                  rx |-> r.rx.called, tx |-> r.tx.called,
                  events |-> r.events,
                  previously_active |-> r.previously_active,
                  prev_mod |-> IF r.previously_active = NULL THEN ModDefaults
                               ELSE m_cq_moderation_info[r.previously_active]]
    /\ m_lock_ring_rx' = IF r.crashed THEN Lock(m_lock_ring_rx, 1)
                         ELSE m_lock_ring_rx
    /\ m_lock_ring_tx' = IF r.crashed THEN Lock(m_lock_ring_tx, 1)
                         ELSE m_lock_ring_tx
    /\ up' = info
    /\ lastOp' = [OpNone EXCEPT !.op = "restart"]
    /\ UNCHANGED <<m_n_num_resources, m_type, pc, local, errno, bufs,
                   flowRule, cq_moderation_enable, routeVars, hashVars,
                   mpVars, profVars>>

\* ring_bond::restart run to completion by one thread, with the arming and
\* the moderation update. After a crash the process is gone, with both
\* locks still held by the thread that ran restart.
RestartFull(info, armRx, armTx, ub) ==
    /\ ~rsLast.crashed
    /\ m_lock_ring_rx = Unlocked /\ m_lock_ring_tx = Unlocked
    /\ RestartFullDone(restart(m_active_rings, m_cq_moderation_info, info,
                               armRx, armTx, m_type, cq_moderation_enable,
                               ub, m_n_num_resources),
                       info, armRx, armTx)

\* ring_bond::adapt_cq_moderation: every up member adapts its own settings
AdaptCqModeration(new) ==
    /\ ~rsLast.crashed
    /\ m_cq_moderation_info' =
          [i \in Members |-> IF up[i] THEN new[i] ELSE m_cq_moderation_info[i]]
    /\ lastOp' = [OpNone EXCEPT !.op = "adapt_cq_moderation"]
    /\ UNCHANGED <<m_n_num_resources, m_type, m_active_rings, up,
                   m_lock_ring_rx, m_lock_ring_tx, pc, local, errno, bufs,
                   flowRule, cq_moderation_enable, rsLast, routeVars,
                   hashVars, mpVars, profVars>>

\* ------------------------------------------------- restart, step by step
\* restart: m_lock_ring_rx.lock()
RestartLockRx(t) ==
    /\ pc[t] = "idle"
    /\ CanLock(m_lock_ring_rx, t)
    /\ m_lock_ring_rx' = Lock(m_lock_ring_rx, t)
    /\ pc' = [pc EXCEPT ![t] = "restart_rx"]
    /\ lastOp' = [OpNone EXCEPT !.op = "lock", !.thread = t]
    /\ UNCHANGED <<m_n_num_resources, m_type, m_active_rings, up,
                   m_lock_ring_tx, local, errno, bufs, flowRule, nonBondVars>>

\* mutant: restart goes on without taking the TX lock
RestartNoLockTx(t, info) ==
    /\ pc[t] = "restart_rx"
    /\ pc' = [pc EXCEPT ![t] = "restart_loop"]
    /\ local' = [local EXCEPT ![t] = [op |-> "restart", info |-> info, i |-> 0,
                                      prev |-> m_active_rings[0]]]
    /\ lastOp' = [OpNone EXCEPT !.op = "lock", !.thread = t]
    /\ UNCHANGED <<m_n_num_resources, m_type, m_active_rings, up,
                   m_lock_ring_rx, m_lock_ring_tx, errno, bufs, flowRule,
                   nonBondVars>>

\* restart: m_lock_ring_tx.lock(), previously_active = m_active_rings[0]
RestartLockTx(t, info) ==
    /\ pc[t] = "restart_rx"
    /\ CanLock(m_lock_ring_tx, t)
    /\ m_lock_ring_tx' = Lock(m_lock_ring_tx, t)
    /\ pc' = [pc EXCEPT ![t] = "restart_loop"]
    /\ local' = [local EXCEPT ![t] = [op |-> "restart", info |-> info, i |-> 0,
                                      prev |-> m_active_rings[0]]]
    /\ lastOp' = [OpNone EXCEPT !.op = "lock", !.thread = t]
    /\ UNCHANGED <<m_n_num_resources, m_type, m_active_rings, up,
                   m_lock_ring_rx, errno, bufs, flowRule, nonBondVars>>

\* restart, member loop: start_active_qp_mgr / stop_active_qp_mgr of member i
RestartQp(t) ==
    /\ pc[t] = "restart_loop"
    /\ local[t].i < m_n_num_resources
    /\ up' = [up EXCEPT ![local[t].i] = local[t].info[local[t].i]]
    /\ pc' = [pc EXCEPT ![t] = "restart_set"]
    /\ lastOp' = [OpNone EXCEPT !.op = "step", !.thread = t]
    /\ UNCHANGED <<m_n_num_resources, m_type, m_active_rings, m_lock_ring_rx,
                   m_lock_ring_tx, local, errno, bufs, flowRule, nonBondVars>>

\* restart, member loop: m_active_rings[i] = m_bond_rings[i] or NULL
RestartSet(t) ==
    /\ pc[t] = "restart_set"
    /\ m_active_rings' = SetActiveSlot(m_active_rings, local[t].i,
                                       local[t].info[local[t].i])
    /\ local' = [local EXCEPT ![t].i = @ + 1]
    /\ pc' = [pc EXCEPT ![t] = "restart_loop"]
    /\ lastOp' = [OpNone EXCEPT !.op = "step", !.thread = t]
    /\ UNCHANGED <<m_n_num_resources, m_type, up, m_lock_ring_rx,
                   m_lock_ring_tx, errno, bufs, flowRule, nonBondVars>>

\* restart after the loop: close_gaps_active_rings
RestartCloseGaps(t) ==
    /\ pc[t] = "restart_loop"
    /\ local[t].i >= m_n_num_resources
    /\ m_active_rings' = close_gaps_active_rings(m_active_rings, m_n_num_resources)
    /\ pc' = [pc EXCEPT ![t] = "restart_unlock_tx"]
    /\ lastOp' = [OpNone EXCEPT !.op = "step", !.thread = t]
    /\ UNCHANGED <<m_n_num_resources, m_type, up, m_lock_ring_rx,
                   m_lock_ring_tx, local, errno, bufs, flowRule, nonBondVars>>

\* restart: m_lock_ring_tx.unlock()
RestartUnlockTx(t) ==
    /\ pc[t] = "restart_unlock_tx"
    /\ m_lock_ring_tx' = Unlock(m_lock_ring_tx)
    /\ pc' = [pc EXCEPT ![t] = "restart_unlock_rx"]
    /\ lastOp' = [OpNone EXCEPT !.op = "step", !.thread = t]
    /\ UNCHANGED <<m_n_num_resources, m_type, m_active_rings, up,
                   m_lock_ring_rx, local, errno, bufs, flowRule, nonBondVars>>

\* restart: m_lock_ring_rx.unlock() and return
RestartUnlockRx(t) ==
    /\ pc[t] = "restart_unlock_rx"
    /\ m_lock_ring_rx' = Unlock(m_lock_ring_rx)
    /\ pc' = [pc EXCEPT ![t] = "idle"]
    /\ local' = [local EXCEPT ![t] = LocalIdle]
    /\ lastOp' = [OpNone EXCEPT !.op = "restart", !.thread = t]
    /\ UNCHANGED <<m_n_num_resources, m_type, m_active_rings, up,
                   m_lock_ring_tx, errno, bufs, flowRule, nonBondVars>>

\* ------------------------------------------- transmit calls, step by step
\* A transmit call of thread t is two steps: the first statement of the
\* function, ring_simple* active_ring = m_active_rings[id], and the rest,
\* which works with that local. None of the functions has a lock() or
\* trylock() statement, so the locks are left as they are.

\* ring_bond::send_lwip_buffer on descriptor b: the active member of id sends
\* it when it owns it; otherwise p_next_desc is cleared and the descriptor
\* stays with the caller
send_lwip_buffer(heap, active, id, b) ==
    LET active_ring == active[id] IN
    IF active_ring # NULL /\ heap[b].owner = active_ring
    THEN [heap |-> [heap EXCEPT ![b].where = "hw"], sentTo |-> active_ring,
          released |-> <<>>]
    ELSE [heap |-> [heap EXCEPT ![b].next = NULL, ![b].where = "held"],
          sentTo |-> NULL, released |-> <<>>]

\* the locals of a transmit call after its first statement
TxLocal(fn, id, b) ==
    [op |-> fn, info |-> <<>>, i |-> id, prev |-> NULL,
     active_ring |-> m_active_rings[id], buf |-> b]

\* mem_buf_tx_get, first statement: active_ring = m_active_rings[id]
TxGetRead(t, id) ==
    /\ pc[t] = "idle"
    /\ pc' = [pc EXCEPT ![t] = "tx_have_active"]
    /\ local' = [local EXCEPT ![t] = TxLocal("mem_buf_tx_get", id, 0)]
    /\ lastOp' = [OpNone EXCEPT !.op = "read_active", !.thread = t, !.id = id,
                                !.active = m_active_rings[id]]
    /\ UNCHANGED <<m_n_num_resources, m_type, m_active_rings, up,
                   m_lock_ring_rx, m_lock_ring_tx, errno, bufs, flowRule,
                   nonBondVars>>

\* mem_buf_tx_get, the rest: active_ring, or m_bond_rings[id] when it is
\* null, hands out the free descriptor b
TxGetRun(t, b) ==
    /\ pc[t] = "tx_have_active"
    /\ local[t].op = "mem_buf_tx_get"
    /\ bufs[b].where = "pool"
    /\ bufs' = [bufs EXCEPT ![b] =
                  [owner |-> IF local[t].active_ring # NULL
                             THEN local[t].active_ring ELSE local[t].i,
                   next |-> NULL, where |-> "held"]]
    /\ pc' = [pc EXCEPT ![t] = "idle"]
    /\ local' = [local EXCEPT ![t] = LocalIdle]
    /\ lastOp' = [OpNone EXCEPT !.op = "get", !.thread = t, !.id = local[t].i,
                                !.buf = b, !.active = local[t].active_ring]
    /\ UNCHANGED <<m_n_num_resources, m_type, m_active_rings, up,
                   m_lock_ring_rx, m_lock_ring_tx, errno, flowRule,
                   nonBondVars>>

\* send_ring_buffer / send_lwip_buffer, first statements: the descriptor of
\* the wqe and active_ring = m_active_rings[id]
TxSendRead(t, fn, id, b) ==
    /\ pc[t] = "idle"
    /\ bufs[b].where = "held"
    /\ bufs' = [bufs EXCEPT ![b].where = "given"]
    /\ pc' = [pc EXCEPT ![t] = "tx_have_active"]
    /\ local' = [local EXCEPT ![t] = TxLocal(fn, id, b)]
    /\ lastOp' = [OpNone EXCEPT !.op = "read_active", !.thread = t, !.id = id,
                                !.buf = b, !.active = m_active_rings[id]]
    /\ UNCHANGED <<m_n_num_resources, m_type, m_active_rings, up,
                   m_lock_ring_rx, m_lock_ring_tx, errno, flowRule,
                   nonBondVars>>

\* send_ring_buffer / send_lwip_buffer, the rest, with the active_ring read
\* by the first statement
TxSendRun(t) ==
    /\ pc[t] = "tx_have_active"
    /\ local[t].op \in {"send_ring_buffer", "send_lwip_buffer"}
    /\ LET id == local[t].i
           b == local[t].buf
           active == [m_active_rings EXCEPT ![id] = local[t].active_ring]
           r == IF local[t].op = "send_ring_buffer"
                THEN send_ring_buffer(bufs, active, id, b, m_n_num_resources)
                ELSE send_lwip_buffer(bufs, active, id, b)
       IN  /\ bufs' = r.heap
           /\ lastOp' = [OpNone EXCEPT !.op = local[t].op, !.thread = t,
                                       !.id = id, !.buf = b,
                                       !.active = local[t].active_ring,
                                       !.owner = bufs[b].owner,
                                       !.sentTo = r.sentTo,
                                       !.released = r.released]
    /\ pc' = [pc EXCEPT ![t] = "idle"]
    /\ local' = [local EXCEPT ![t] = LocalIdle]
    /\ UNCHANGED <<m_n_num_resources, m_type, m_active_rings, up,
                   m_lock_ring_rx, m_lock_ring_tx, errno, flowRule,
                   nonBondVars>>

\* ------------------------------------------- ring_profiles_collection
START_RING_INDEX == 1

\* ring_profile::ring_profile(ring_desc): the descriptor is cleared, then the
\* type and the fields of that type are copied
ring_profile(ring_desc) ==
    IF ring_desc.ring_type = "VMA_RING_CYCLIC_BUFFER"
    THEN [ring_type |-> ring_desc.ring_type, num |-> ring_desc.num]
    ELSE [ring_type |-> ring_desc.ring_type, num |-> 0]

\* mutant: the index is incremented before the key is taken
add_profile_preincrement(idx, map, heap, profile) ==
    LET key == idx + 1
        prof == Len(heap) + 1
    IN  [idx |-> idx + 1,
         heap |-> Append(heap, ring_profile(profile)),
         map |-> [k \in DOMAIN map \cup {key} |->
                    IF k = key THEN prof ELSE map[k]],
         key |-> key, prof |-> prof]

\* ring_profiles_collection::add_profile(profile): key = m_curr_idx,
\* m_curr_idx++, prof = new ring_profile(profile), m_profs_map[key] = prof,
\* return key. A pointer is the position of the object in the heap
add_profile(idx, map, heap, profile) ==
    LET key == idx
        prof == Len(heap) + 1
    IN  [idx |-> idx + 1,
         heap |-> Append(heap, ring_profile(profile)),
         map |-> [k \in DOMAIN map \cup {key} |->
                    IF k = key THEN prof ELSE map[k]],
         key |-> key, prof |-> prof]

\* ring_profiles_collection::get_profile(key): the profile found, or NULL
get_profile(map, key) ==
    IF key \in DOMAIN map THEN map[key] ELSE NULL

ProfNone == [op |-> "none"]
\* ring_profiles_collection::ring_profiles_collection
ProfIdle ==
    /\ m_curr_idx = START_RING_INDEX
    /\ m_profs_map = <<>>
    /\ profHeap = <<>>
    /\ profAdds = <<>>
    /\ profLast = ProfNone

\* the state after add_profile produced r
AddProfileDone(r, profile) ==
    /\ m_curr_idx' = r.idx
    /\ m_profs_map' = r.map
    /\ profHeap' = r.heap
    /\ profAdds' = Append(profAdds, [key |-> r.key, prof |-> r.prof])
    /\ profLast' = [op |-> "add_profile", profile |-> profile, ret |-> r.key]

\* a call of add_profile(profile)
AddProfile(profile) ==
    /\ Len(profAdds) < MaxProfiles
    /\ AddProfileDone(add_profile(m_curr_idx, m_profs_map, profHeap, profile),
                      profile)
    /\ UNCHANGED <<bondVars, routeVars, hashVars, mpVars, modVars>>

\* a call of get_profile(key)
GetProfile(key) ==
    /\ profLast' = [op |-> "get_profile", key |-> key,
                    ret |-> get_profile(m_profs_map, key)]
    /\ UNCHANGED <<bondVars, routeVars, hashVars, mpVars, modVars,
                   m_curr_idx, m_profs_map, profHeap, profAdds>>

\* ------------------------------------------ blocking calls, step by step
\* A call that takes a lock with lock() first waits for it: the thread is
\* in the call and holds nothing until the lock is free or its own.

\* restart is called: the thread is at m_lock_ring_rx.lock()
RestartCall(t) ==
    /\ pc[t] = "idle"
    /\ pc' = [pc EXCEPT ![t] = "restart_wait"]
    /\ lastOp' = [OpNone EXCEPT !.op = "call", !.thread = t]
    /\ UNCHANGED <<m_n_num_resources, m_type, m_active_rings, up,
                   m_lock_ring_rx, m_lock_ring_tx, local, errno, bufs,
                   flowRule, nonBondVars>>

\* restart: m_lock_ring_rx.lock() returns
RestartAcquireRx(t) ==
    /\ pc[t] = "restart_wait"
    /\ CanLock(m_lock_ring_rx, t)
    /\ m_lock_ring_rx' = Lock(m_lock_ring_rx, t)
    /\ pc' = [pc EXCEPT ![t] = "restart_rx"]
    /\ lastOp' = [OpNone EXCEPT !.op = "lock", !.thread = t]
    /\ UNCHANGED <<m_n_num_resources, m_type, m_active_rings, up,
                   m_lock_ring_tx, local, errno, bufs, flowRule, nonBondVars>>

\* ring_bond::attach_flow / detach_flow is called: the thread is at
\* m_lock_ring_rx.lock() (detach_flow: at the constructor of auto_unlocker)
FlowCall(t, op) ==
    /\ pc[t] = "idle"
    /\ pc' = [pc EXCEPT ![t] = "flow_wait"]
    /\ local' = [local EXCEPT ![t] = [LocalIdle EXCEPT !.op = op]]
    /\ lastOp' = [OpNone EXCEPT !.op = "call", !.thread = t]
    /\ UNCHANGED <<m_n_num_resources, m_type, m_active_rings, up,
                   m_lock_ring_rx, m_lock_ring_tx, errno, bufs, flowRule,
                   nonBondVars>>

\* ring_bond::attach_flow / detach_flow: the lock is taken
FlowAcquire(t) ==
    /\ pc[t] = "flow_wait"
    /\ CanLock(m_lock_ring_rx, t)
    /\ m_lock_ring_rx' = Lock(m_lock_ring_rx, t)
    /\ pc' = [pc EXCEPT ![t] = "flow"]
    /\ lastOp' = [OpNone EXCEPT !.op = "lock", !.thread = t]
    /\ UNCHANGED <<m_n_num_resources, m_type, m_active_rings, up,
                   m_lock_ring_tx, local, errno, bufs, flowRule, nonBondVars>>

\* ring_bond_eth_netvsc::attach_flow / detach_flow is called: the thread is
\* at the constructor of auto_unlocker lock(m_lock_ring_rx)
NetvscCall(t, op) ==
    /\ pc[t] = "idle"
    /\ pc' = [pc EXCEPT ![t] = "netvsc_wait"]
    /\ local' = [local EXCEPT ![t] = [LocalIdle EXCEPT !.op = op]]
    /\ lastOp' = [OpNone EXCEPT !.op = "call", !.thread = t]
    /\ UNCHANGED <<m_n_num_resources, m_type, m_active_rings, up,
                   m_lock_ring_rx, m_lock_ring_tx, errno, bufs, flowRule,
                   nonBondVars>>

\* netvsc attach_flow / detach_flow: auto_unlocker has taken the lock
NetvscAcquire(t) ==
    /\ pc[t] = "netvsc_wait"
    /\ CanLock(m_lock_ring_rx, t)
    /\ m_lock_ring_rx' = Lock(m_lock_ring_rx, t)
    /\ pc' = [pc EXCEPT ![t] = "netvsc_locked"]
    /\ lastOp' = [OpNone EXCEPT !.op = "lock", !.thread = t]
    /\ UNCHANGED <<m_n_num_resources, m_type, m_active_rings, up,
                   m_lock_ring_tx, local, errno, bufs, flowRule, nonBondVars>>

\* netvsc attach_flow / detach_flow: if (m_tap_fd < 0) return false, which
\* runs the destructor of auto_unlocker; otherwise ring_bond::attach_flow /
\* detach_flow is entered and takes the recursive lock a second time
NetvscTap(t, tap_fd) ==
    /\ pc[t] = "netvsc_locked"
    /\ IF tap_fd < 0
       THEN /\ m_lock_ring_rx' = Unlock(m_lock_ring_rx)
            /\ pc' = [pc EXCEPT ![t] = "idle"]
            /\ local' = [local EXCEPT ![t] = LocalIdle]
            /\ lastOp' = [OpNone EXCEPT !.op = "netvsc_" \o local[t].op,
                                        !.thread = t, !.ret = 0,
                                        !.tap_fd = tap_fd]
       ELSE /\ m_lock_ring_rx' = Lock(m_lock_ring_rx, t)
            /\ pc' = [pc EXCEPT ![t] = "netvsc_inner"]
            /\ lastOp' = [OpNone EXCEPT !.op = "lock", !.thread = t]
            /\ UNCHANGED local
    /\ UNCHANGED <<m_n_num_resources, m_type, m_active_rings, up,
                   m_lock_ring_tx, errno, bufs, flowRule, nonBondVars>>

\* netvsc attach_flow / detach_flow: the member loop of ring_bond::attach_flow
\* / detach_flow, its unlock and its return into the netvsc function
NetvscInner(t, res) ==
    /\ pc[t] = "netvsc_inner"
    /\ LET r == flow_loop(flowRule, res, local[t].op, 0, TRUE, <<>>,
                          m_n_num_resources)
       IN  /\ flowRule' = r.rules
           /\ local' = [local EXCEPT ![t].i = IF r.ret THEN 1 ELSE 0]
    /\ m_lock_ring_rx' = Unlock(m_lock_ring_rx)
    /\ pc' = [pc EXCEPT ![t] = "netvsc_msg"]
    /\ lastOp' = [OpNone EXCEPT !.op = "step", !.thread = t]
    /\ UNCHANGED <<m_n_num_resources, m_type, m_active_rings, up,
                   m_lock_ring_tx, errno, bufs, nonBondVars>>

\* netvsc attach_flow / detach_flow: the message to the agent for a TCP flow
\* that every member took, and the return (false when the message failed),
\* which runs the destructor of auto_unlocker
NetvscEnd(t, is_tcp, rc) ==
    /\ pc[t] = "netvsc_msg"
    /\ LET r == netvsc_flow_end([rules |-> flowRule, ret |-> local[t].i = 1,
                                 called |-> <<>>],
                                local[t].op, is_tcp, rc)
       IN  lastOp' = [OpNone EXCEPT !.op = "netvsc_" \o local[t].op,
                                   !.thread = t,
                                   !.ret = IF r.ret THEN 1 ELSE 0,
                                   !.is_tcp = is_tcp, !.rc = rc,
                                   !.sent = r.sent]
    /\ m_lock_ring_rx' = Unlock(m_lock_ring_rx)
    /\ pc' = [pc EXCEPT ![t] = "idle"]
    /\ local' = [local EXCEPT ![t] = LocalIdle]
    /\ UNCHANGED <<m_n_num_resources, m_type, m_active_rings, up,
                   m_lock_ring_tx, errno, bufs, flowRule, nonBondVars>>

\* --------------------------------------------------------- specifications

\* the active set under whole reconfigurations, for every legal N
InitActive == InitBond(1 .. MAX_NUM_RING_RESOURCES, {PoolBuf}) /\ RouteIdle /\ HashIdle /\ MpIdle /\ ModIdle /\ ProfIdle
NextActive == \E info \in RingInfos : Restart(info)
SpecActive == InitActive /\ [][NextActive]_vars

\* transmit buffers under failovers
InitTx == InitBond(1 .. MaxRings, {PoolBuf, ForeignBuf}) /\ RouteIdle /\ HashIdle /\ MpIdle /\ ModIdle /\ ProfIdle
NextTx ==
    \/ \E info \in RingInfos : Restart(info)
    \/ \E id \in TxIds, S \in SUBSET Bufs : MemBufTxGet(id, S)
    \/ \E id \in TxIds, b \in Bufs : SendRingBuffer(id, b)
    \/ \E b \in Bufs : ReturnSingleToOwnerTx(b)
SpecTx == InitTx /\ [][NextTx]_vars

\* flow registration by concurrent threads
InitFlow == InitBond(1 .. MaxFlowRings, {PoolBuf}) /\ RouteIdle /\ HashIdle /\ MpIdle /\ ModIdle /\ ProfIdle
NextFlow ==
    \E t \in Threads :
        \/ \E op \in {"attach", "detach"} : FlowLock(t, op)
        \/ \E res \in [Members -> BOOLEAN] : FlowRun(t, res)
SpecFlow == InitFlow /\ [][NextFlow]_vars

\* polling, arming and reconfiguration by concurrent threads
InitLock == InitBond(1 .. MaxRings, {PoolBuf}) /\ RouteIdle /\ HashIdle /\ MpIdle /\ ModIdle /\ ProfIdle
NextLock ==
    \E t \in Threads :
        \/ \E op \in PollOps : PollTry(t, op)
        \/ \E tapRes \in TapResults, res \in [Members -> PollResults] :
              PollRun(t, tapRes, res)
        \/ RestartLockRx(t)
        \/ \E info \in [Members -> BOOLEAN] : RestartLockTx(t, info)
        \/ RestartQp(t)
        \/ RestartSet(t)
        \/ RestartCloseGaps(t)
        \/ RestartUnlockTx(t)
        \/ RestartUnlockRx(t)
SpecLock == InitLock /\ [][NextLock]_vars

\* transmit calls of concurrent threads while another thread reconfigures
InitTxRace ==
    /\ InitBondAllUp(1 .. MaxRings, BondTypes)
    /\ RouteIdle /\ HashIdle /\ MpIdle /\ ModIdle /\ ProfIdle
NextTxRace ==
    \E t \in Threads :
        \/ RestartLockRx(t)
        \/ \E info \in [Members -> BOOLEAN] : RestartLockTx(t, info)
        \/ RestartQp(t)
        \/ RestartSet(t)
        \/ RestartCloseGaps(t)
        \/ RestartUnlockTx(t)
        \/ RestartUnlockRx(t)
        \/ \E id \in TxIds : TxGetRead(t, id)
        \/ \E b \in Bufs : TxGetRun(t, b)
        \/ \E fn \in {"send_ring_buffer", "send_lwip_buffer"},
              id \in TxIds, b \in Bufs : TxSendRead(t, fn, id, b)
        \/ TxSendRun(t)
SpecTxRace == InitTxRace /\ [][NextTxRace]_vars

\* the ring-profile collection: profiles are added and looked up
ProfileInputs ==
    [ring_type : {"VMA_RING_PACKET", "VMA_RING_CYCLIC_BUFFER"}, num : {8}]
InitProfile ==
    /\ InitBondAllUp({1}, {"ACTIVE_BACKUP"})
    /\ RouteIdle /\ HashIdle /\ MpIdle /\ ModIdle /\ ProfIdle
NextProfile ==
    \/ \E profile \in ProfileInputs : AddProfile(profile)
    \/ \E key \in 0 .. (MaxProfiles + 1) : GetProfile(key)
SpecProfile == InitProfile /\ [][NextProfile]_vars

\* every operation that takes a lock, by concurrent threads, step by step
\* (the locks do not depend on the number of members: one member, which is up
\* or not, gives every return path)
InitBalance == InitBond({1}, {PoolBuf}) /\ RouteIdle /\ HashIdle /\ MpIdle /\ ModIdle /\ ProfIdle
\* a thread enters an operation
BalanceCall(t) ==
    \/ \E op \in PollOps : PollTry(t, op)
    \/ RestartCall(t)
    \/ \E op \in {"attach", "detach"} : FlowCall(t, op)
    \/ \E op \in {"attach", "detach"} : NetvscCall(t, op)
\* a thread waiting in lock() gets the lock
BalanceAcquire(t) ==
    \/ RestartAcquireRx(t)
    \/ \E info \in [Members -> BOOLEAN] : RestartLockTx(t, info)
    \/ FlowAcquire(t)
    \/ NetvscAcquire(t)
\* a thread that holds what it needs goes on
BalanceStep(t) ==
    \/ \E tapRes \in TapResults, res \in [Members -> PollResults] :
          PollRun(t, tapRes, res)
    \/ RestartQp(t)
    \/ RestartSet(t)
    \/ RestartCloseGaps(t)
    \/ RestartUnlockTx(t)
    \/ RestartUnlockRx(t)
    \/ \E res \in [Members -> BOOLEAN] : FlowRun(t, res)
    \/ \E tap_fd \in {-1, 3} : NetvscTap(t, tap_fd)
    \/ \E res \in [Members -> BOOLEAN] : NetvscInner(t, res)
    \/ \E is_tcp \in BOOLEAN, rc \in {0, -1} : NetvscEnd(t, is_tcp, rc)
NextBalance ==
    \E t \in Threads : BalanceCall(t) \/ BalanceAcquire(t) \/ BalanceStep(t)
\* a running thread is scheduled again and again, and a thread waiting for a
\* lock that is free again and again gets it
SpecBalance ==
    /\ InitBalance
    /\ [][NextBalance]_vars
    /\ \A t \in Threads : WF_vars(BalanceStep(t)) /\ SF_vars(BalanceAcquire(t))

\* reconfigurations with arming and moderation
\* what the members return to request_notification (0 ok, < 0 error): all
\* requests succeed, or one request of one member fails
ArmOk == [i \in Members |-> 0]
ArmFail(f) == [i \in Members |-> IF i = f THEN -1 ELSE 0]
ArmInputs ==
    {[rx |-> ArmOk, tx |-> ArmOk]}
    \cup {[rx |-> ArmFail(f), tx |-> ArmOk] : f \in Members}
    \cup {[rx |-> ArmOk, tx |-> ArmFail(f)] : f \in Members}
\* the outcomes of the null dereference, where restart with info makes one
NullDerefChoices(info) ==
    IF m_type = "ACTIVE_BACKUP" /\ cq_moderation_enable
       /\ \A i \in Members : ~info[i]
    THEN NullDerefOutcomes ELSE {"skipped"}
InitRestart ==
    /\ InitBond(1 .. MaxRings, {PoolBuf})
    /\ RouteIdle /\ HashIdle /\ MpIdle /\ ProfIdle
    /\ cq_moderation_enable \in BOOLEAN
    /\ m_cq_moderation_info \in [Members -> ModChoices]
    /\ rsLast = RsNone
NextRestart ==
    \/ \E info \in [Members -> BOOLEAN], arm \in ArmInputs :
          \E ub \in NullDerefChoices(info) :
              RestartFull(info, arm.rx, arm.tx, ub)
    \/ \E new \in [Members -> ModChoices] : AdaptCqModeration(new)
SpecRestart == InitRestart /\ [][NextRestart]_vars

\* flow registration on the tap-backed aggregate ring
InitNetvsc ==
    /\ InitBondAllUp(1 .. MaxRings, {"ACTIVE_BACKUP"})
    /\ RouteIdle /\ HashIdle /\ MpIdle /\ ModIdle /\ ProfIdle
NextNetvsc ==
    \E t \in Threads, op \in {"attach", "detach"}, tap_fd \in {-1, 3},
       res \in [Members -> BOOLEAN], is_tcp \in BOOLEAN, rc \in {0, -1} :
       NetvscFlow(t, op, tap_fd, res, is_tcp, rc)
SpecNetvsc == InitNetvsc /\ [][NextNetvsc]_vars

\* polling of the members between reconfigurations
InitPoll == InitBond(1 .. MaxRings, {PoolBuf}) /\ RouteIdle /\ HashIdle /\ MpIdle /\ ModIdle /\ ProfIdle
NextPoll ==
    \/ \E info \in RingInfos : Restart(info)
    \/ \E t \in Threads, op \in PollOps \ ArmOps, tapRes \in TapResults,
          res \in [Members -> PollResults] : PollAndProcess(t, op, tapRes, res)
SpecPoll == InitPoll /\ [][NextPoll]_vars

\* ownership routing of one queue or chain of buffers
RouteRings == (1 .. MaxRouteRings) \cup {MAX_NUM_RING_RESOURCES}
InitRoute ==
    /\ InitBondAllUp(RouteRings, {"ACTIVE_BACKUP"})
    /\ HashIdle
    /\ MpIdle /\ ModIdle /\ ProfIdle
    /\ \E k \in 0 .. MaxRouteBufs :
          rt \in [1 .. k -> Members \cup {OTHER_OWNER}]
    /\ rtOut = RouteNone
\* the members that refuse their bucket are chosen among the owners present;
\* the outcome of the undefined behaviour matters only when N is the maximum
NextRoute ==
    \/ \E refuse \in SUBSET ({rt[k] : k \in DOMAIN rt} \cap Members),
          ub \in IF m_n_num_resources >= MAX_NUM_RING_RESOURCES
                 THEN {"as_bucket", "lost"} ELSE {"as_bucket"} :
          ReclaimRecvBuffers([i \in Members |-> i \notin refuse], ub)
    \/ MemBufTxRelease
SpecRoute == InitRoute /\ [][NextRoute]_vars

\* ------------------------------------------------------------------ claims

\* C1: for every N in 1..10, after construction and after every reconfigure
\* with at least one member marked active, every slot of the active set is
\* non-null
C1_NoGaps ==
    (\E i \in Members : up[i]) => \A i \in Members : m_active_rings[i] # NULL

\* C1 witness: N = 10, a reconfigure has marked only the last member active
C1_Witness ==
    /\ m_n_num_resources = MAX_NUM_RING_RESOURCES
    /\ lastOp.op = "restart"
    /\ \A i \in Members : up[i] <=> i = MAX_NUM_RING_RESOURCES - 1
    /\ \A i \in Members : m_active_rings[i] = MAX_NUM_RING_RESOURCES - 1

\* C2: a buffer whose owner is not the active member of the id it is sent
\* with (a null active member included) is handed to no member's send; only
\* that buffer is released (its next pointer was cleared), exactly once, to
\* members[id] when that is its owner, else to its owning member, else to the
\* global pool; the call reports nothing to the caller. No buffer is ever
\* released twice and none is left undisposed.
C2_Destination(op) ==
    IF op.owner = op.id THEN op.id
    ELSE IF op.owner \in Members THEN op.owner
    ELSE GLOBAL_POOL

C2_StaleDrop ==
    /\ \A b \in Bufs : bufs[b].where \notin {"double", "given"}
    /\ (lastOp.op = "send" /\ lastOp.owner # lastOp.active) =>
          /\ lastOp.sentTo = NULL
          /\ lastOp.released = << <<lastOp.buf, C2_Destination(lastOp)>> >>
          /\ bufs[lastOp.buf].where = "pool"
          /\ lastOp.ret = 0
          /\ \A t \in Threads : errno[t] = 0

\* C2 witness: after a failover a buffer owned by member 1 is sent with id 0
\* whose active member is member 0, while it was still chained to a buffer
\* the caller holds; it went to its owner through ownership routing
C2_Witness ==
    /\ lastOp.op = "send" /\ lastOp.id = 0 /\ lastOp.owner = 1
    /\ lastOp.active = 0
    /\ lastOp.released = << <<lastOp.buf, 1>> >>
    /\ \E b \in Bufs : bufs[b].where = "held"

\* C3: attach_flow / detach_flow call every member in increasing index order
\* with the RX lock held, whatever earlier members returned; the result is
\* true exactly when every member returned true; a member that succeeded
\* keeps the effect (the rule stays registered after a failed attach)
C3_FanOut ==
    lastOp.op \in {"attach", "detach"} =>
        /\ lastOp.rxOwner = lastOp.thread
        /\ lastOp.called = [k \in 1 .. m_n_num_resources |-> k - 1]
        /\ (lastOp.ret = 1) <=> (\A i \in Members : lastOp.res[i])
        /\ \A i \in Members :
              lastOp.res[i] => (flowRule[i] <=> lastOp.op = "attach")

\* C3 witness: 3 members, member 2 fails the attach: the result is false and
\* members 0 and 1 keep the rule
C3_Witness ==
    /\ m_n_num_resources = 3
    /\ lastOp.op = "attach" /\ lastOp.ret = 0
    /\ lastOp.res[0] /\ lastOp.res[1] /\ ~lastOp.res[2]
    /\ flowRule[0] /\ flowRule[1] /\ ~flowRule[2]

\* C7: a polling or arming call that finds its lock (TX for TX arming, RX
\* otherwise) held by another thread returns at once with errno EBUSY and its
\* busy value, having called no member and no tap pre-step; a call enters its
\* body only as the holder of that lock
C7_LockOf(op) == IF op = "arm_tx" THEN m_lock_ring_tx ELSE m_lock_ring_rx

C7_TryLock ==
    /\ lastOp.busy =>
          /\ lastOp.op \in PollOps
          /\ C7_LockOf(lastOp.op).owner \notin {0, lastOp.thread}
          /\ errno[lastOp.thread] = EBUSY
          /\ lastOp.ret = BusyRet(lastOp.op)
          /\ lastOp.called = <<>> /\ ~lastOp.tap
          /\ pc[lastOp.thread] = "idle"
    /\ \A t \in Threads :
          pc[t] = "polling" => C7_LockOf(local[t].op).owner = t
    /\ (lastOp.op \in PollOps /\ ~lastOp.busy) =>
          (lastOp.tap <=> lastOp.op \notin ArmOps)

\* C7 witness: TX arming finds the TX lock held by a reconfigure running in
\* another thread
C7_Witness ==
    /\ lastOp.busy /\ lastOp.op = "arm_tx"
    /\ \E t \in Threads : t # lastOp.thread /\ pc[t] = "restart_set"

\* the hash model: a bond of any mode and policy, two calls of generate_id
HashRings == (1 .. MaxHashRings) \cup {MAX_NUM_RING_RESOURCES}
InitHash ==
    /\ InitBondAllUp(HashRings, BondTypes)
    /\ RouteIdle
    /\ MpIdle /\ ModIdle /\ ProfIdle
    /\ m_xmit_hash_policy \in {XhpPolicies[k] : k \in DOMAIN XhpPolicies}
    /\ hashLast = HashNone
    /\ hashPrev = HashNone
NextHash == \E in \in HashInputs : GenerateId(in)
SpecHash == InitHash /\ [][NextHash]_vars

\* the receive model: the hardware writes completion records, the application
\* calls cyclic_buffer_read
InitMp ==
    /\ InitBondAllUp({1}, {"ACTIVE_BACKUP"})
    /\ RouteIdle
    /\ HashIdle
    /\ MpIdle /\ ModIdle /\ ProfIdle
NextMp ==
    \/ \E cqe \in CqeInputs : HwPost(cqe)
    \/ \E a \in ReadArgs : CyclicBufferRead(a.min, a.max, a.flags)
SpecMp == InitMp /\ [][NextMp]_vars

\* the receive model with the totals of the application
NextMpCount ==
    \/ \E cqe \in CqeInputs : HwPost(cqe)
    \/ \E a \in ReadArgs : CyclicBufferReadCounted(a.min, a.max, a.flags)
SpecMpCount == InitMp /\ [][NextMpCount]_vars

\* ---------------------------------------------------- claims on the routing
\* the positions of the input whose buffer is owned by o, in input order
C5_OwnedBy(owners, o) ==
    SelectSeq([k \in 1 .. Len(owners) |-> k], LAMBDA k : owners[k] = o)

\* the positions of the input whose buffer no member owns, in input order
C5_Unowned(owners, n) ==
    SelectSeq([k \in 1 .. Len(owners) |-> k],
              LAMBDA k : owners[k] \notin Slots(n))

RECURSIVE C5_SumLen(_, _, _)
C5_SumLen(buckets, i, n) ==
    IF i > n THEN 0 ELSE Len(buckets[i]) + C5_SumLen(buckets, i + 1, n)

C5_Once(seq, len) ==
    /\ Len(seq) = len
    /\ \A k \in 1 .. len : \E j \in 1 .. Len(seq) : seq[j] = k

\* C5: after reclaim_recv_buffers on any input queue, bucket i holds exactly
\* the buffers owned by member i in their input order, the overflow bucket
\* (index N) holds exactly the buffers no member owns, the sizes add up to the
\* input size, the partition is the same for every last-matched-index hint,
\* and every input buffer reaches exactly one destination (a member's reclaim
\* or the pool).
C5_QueueRouting ==
    rtOut.shape = "queue" =>
      LET n == m_n_num_resources IN
      /\ \A i \in Slots(n) : rtOut.buckets[i] = C5_OwnedBy(rt, i)
      /\ rtOut.buckets[n] = C5_Unowned(rt, n)
      /\ C5_SumLen(rtOut.buckets, 0, n) = Len(rt)
      /\ \A hint \in Slots(n), ub \in {"as_bucket", "lost"} :
            devide_buffers_helper_queue(rt, hint, n, ub)
              = devide_buffers_helper_queue(rt, 0, n, ub)
      /\ C5_Once(rtOut.toMember \o rtOut.toPool, Len(rt))

\* the maximal runs of consecutive equally owned buffers that no member owns,
\* from position k on, in input order
RECURSIVE C6_UnownedRuns(_, _, _)
C6_UnownedRuns(owners, k, n) ==
    IF k > Len(owners) THEN <<>>
    ELSE LET RECURSIVE End(_)
             End(j) == IF j < Len(owners) /\ owners[j + 1] = owners[k]
                       THEN End(j + 1) ELSE j
             e == End(k)
         IN  (IF owners[k] \in Slots(n) THEN <<>>
              ELSE << [j \in 1 .. e - k + 1 |-> k + j - 1] >>)
             \o C6_UnownedRuns(owners, e + 1, n)

\* C6: after mem_buf_tx_release on any input chain, member i received one
\* null-terminated chain of exactly the buffers it owns in input order, every
\* maximal run of equally owned buffers that no member owns went to the pool
\* as one chain, and every input buffer was released exactly once.
C6_ChainRouting ==
    rtOut.shape = "chain" =>
      LET n == m_n_num_resources IN
      /\ \A i \in Slots(n) : rtOut.got[i] = C5_OwnedBy(rt, i)
      /\ rtOut.pooled = C6_UnownedRuns(rt, 1, n)
      /\ \A b \in DOMAIN rtOut.heap : rtOut.heap[b] = PoolBuf

\* C6 witness: a chain in which a member's buffers are split by a run that
\* no member owns has been released
C6_Witness ==
    /\ rtOut.shape = "chain"
    /\ Len(rt) >= 3
    /\ rt[1] \in Slots(m_n_num_resources)
    /\ rt[2] \notin Slots(m_n_num_resources)
    /\ rt[3] = rt[1]
    /\ rtOut.got[rt[1]] = <<1, 3>>
    /\ rtOut.pooled = << <<2>> >>

\* C4: generate_id depends only on its inputs and on the mode, policy and N
\* of the ring: in LAG mode the id is in [0, N) for every policy and input, in
\* any other mode it is 0, and two calls with equal inputs give equal ids.
C4_SelectId ==
    hashLast # HashNone =>
      /\ m_type = "LAG_8023ad" => hashLast.id \in Slots(m_n_num_resources)
      /\ m_type # "LAG_8023ad" => hashLast.id = 0
      /\ (hashPrev # HashNone /\ hashPrev.in = hashLast.in)
            => hashPrev.id = hashLast.id

\* C4 witness: in LAG mode with a layer 3+4 policy the same IP flow was
\* hashed twice to a member other than the first
C4_Witness ==
    /\ m_type = "LAG_8023ad"
    /\ m_xmit_hash_policy = "XHP_LAYER_3_4"
    /\ hashPrev # HashNone
    /\ hashPrev.in = hashLast.in
    /\ hashLast.in.eth_proto = htons(ETH_P_IP)
    /\ hashLast.id >= 1

\* ------------------------------------------------- claims on the receive path
\* C8: whenever cyclic_buffer_read writes the completion, the packet count
\* written is at least 1, the payload pointer written is the address captured
\* for the accumulated payload (never null), and the accumulation state is
\* EMPTY afterwards.
C8_NoEmptyCompletion ==
    (mpLast.op = "cyclic_buffer_read" /\ mpLast.completion.written) =>
      /\ mpLast.completion.packets >= 1
      /\ mpLast.completion.payload_ptr # 0
      /\ mpLast.before.d_addr # 0
            => mpLast.completion.payload_ptr = mpLast.before.d_addr
      /\ m_curr_d_addr = 0

C9_Filler(cqe) == ntohl(cqe.byte_cnt).hi >= 32768
C9_Strides(cqe) == ntohl(cqe.byte_cnt).hi % 32768

\* C9: every decoder call that finds a ready record with the filler bit set
\* reports size 1 and the bad-packet flag, adds the record's stride count to
\* the running stride total and advances the consumption index.
C9_FillerRecord ==
    mpLast.op = "cyclic_buffer_read" =>
      \A k \in DOMAIN mpLast.polls :
        LET d == mpLast.polls[k] IN
        (d.ready /\ C9_Filler(d.cqe[1])) =>
          /\ d.size = 1
          /\ VMA_MP_RQ_BAD_PACKET \in d.flags
          /\ d.strides_after = d.strides_before + C9_Strides(d.cqe[1])
          /\ d.index_after = d.index_before + 1

\* C10: every decoder call that finds a ready record, whatever the record
\* holds, advances the consumption index by exactly one.
C10_IndexAdvances ==
    mpLast.op = "cyclic_buffer_read" =>
      \A k \in DOMAIN mpLast.polls :
        mpLast.polls[k].ready =>
          mpLast.polls[k].index_after = mpLast.polls[k].index_before + 1

\* ------------------------------------------------- claims, second group
RECURSIVE C11_Positive(_, _, _, _)
C11_Positive(upv, res, i, n) ==
    IF i >= n THEN 0
    ELSE (IF upv[i] /\ res[i] > 0 THEN res[i] ELSE 0)
         + C11_Positive(upv, res, i + 1, n)

C11_UpMembers(upv, n) ==
    SelectSeq([k \in 1 .. n |-> k - 1], LAMBDA i : upv[i])

\* C11: a polling call that got the RX lock polls exactly the members that
\* are up, in index order; it returns the sum of the positive counts (the tap
\* pre-step included) when that sum is positive, and otherwise the result of
\* the last up member polled, 0 when no member is up.
C11_Accumulate ==
    (lastOp.op \in PollOps \ ArmOps /\ ~lastOp.busy) =>
      LET n == m_n_num_resources
          polled == C11_UpMembers(lastOp.up, n)
          sum == lastOp.tapRes + C11_Positive(lastOp.up, lastOp.res, 0, n)
      IN  /\ lastOp.called = polled
          /\ sum > 0 => lastOp.ret = sum
          /\ sum <= 0 =>
               lastOp.ret = IF polled = <<>> THEN 0
                            ELSE lastOp.res[polled[Len(polled)]]

\* C11 witness: with a member down, the last up member polled reported an
\* error and no count was positive: the error is returned
C11_Witness ==
    /\ lastOp.op \in PollOps \ ArmOps /\ ~lastOp.busy
    /\ \E i \in Members : ~lastOp.up[i]
    /\ lastOp.called # <<>>
    /\ lastOp.ret = -1

C12_Illegal(min, max, flags) == min > max \/ max = 0 \/ flags # MSG_DONTWAIT

\* C12: cyclic_buffer_read with min > max, max = 0 or a mode other than
\* MSG_DONTWAIT returns -1 with errno EINVAL, calls the decoder not at all,
\* leaves the consumption index, the stride counter, the work-queue index and
\* the accumulation state as they were, and does not write the completion.
C12_IllegalArguments ==
    (mpLast.op = "cyclic_buffer_read"
       /\ C12_Illegal(mpLast.min, mpLast.max, mpLast.flags)) =>
      /\ mpLast.ret = -1 /\ mpLast.errno = EINVAL
      /\ mpLast.polls = <<>> /\ mpLast.posted = <<>>
      /\ ~mpLast.completion.written
      /\ m_cq_cons_index = mpLast.before.idx
      /\ m_stride_counter = mpLast.before.stride
      /\ m_curr_wq = mpLast.before.wq
      /\ m_curr_d_addr = mpLast.before.d_addr
      /\ m_curr_packets = mpLast.before.packets
      /\ m_curr_size = mpLast.before.size

\* C12 witness: an illegal call made while packets are accumulated and a
\* record is ready
C12_Witness ==
    /\ mpLast.op = "cyclic_buffer_read"
    /\ C12_Illegal(mpLast.min, mpLast.max, mpLast.flags)
    /\ mpLast.before.d_addr # 0
    /\ m_cqes # <<>>
    /\ mpLast.ret = -1

C13_HoldsBoth(t) == m_lock_ring_rx.owner = t /\ m_lock_ring_tx.owner = t
C13_HoldsRxOnly(t) == m_lock_ring_rx.owner = t /\ m_lock_ring_tx.owner # t

\* C13: a thread inside restart holds the RX lock alone right after entry
\* and right before return, and both locks in between (RX is taken first, TX
\* is released first); restart never gives up on a busy lock; and the active
\* set changes only in a step of a thread that holds both locks.
C13_RestartLocks ==
    /\ [](\A t \in Threads :
            /\ pc[t] \in {"restart_rx", "restart_unlock_rx"}
                  => C13_HoldsRxOnly(t)
            /\ pc[t] \in {"restart_loop", "restart_set", "restart_unlock_tx"}
                  => C13_HoldsBoth(t)
            /\ (lastOp.op = "restart" /\ lastOp.thread = t) => ~lastOp.busy)
    /\ [][m_active_rings' # m_active_rings =>
            \E t \in Threads :
               /\ C13_HoldsBoth(t)
               /\ pc[t] \in {"restart_loop", "restart_set"}
               /\ m_lock_ring_rx' = m_lock_ring_rx
               /\ m_lock_ring_tx' = m_lock_ring_tx]_vars

\* C13 witness: a reconfiguration that changed the active set has released
\* the TX lock and still holds the RX lock
C13_Witness ==
    \E t \in Threads :
       /\ pc[t] = "restart_unlock_rx"
       /\ m_lock_ring_rx.owner = t
       /\ m_lock_ring_tx = Unlocked
       /\ \E i \in Members : (m_active_rings[i] # NULL) # (local[t].prev # NULL)

\* C14: the tap-backed attach_flow and detach_flow return true only if every
\* member took the rule and the message to the agent, when sent, succeeded; a
\* member that rejects, or a failed message, makes the call return false.
C14_NetvscFlow ==
    lastOp.op \in {"netvsc_attach", "netvsc_detach"} =>
      /\ lastOp.ret = 1 =>
            /\ \A i \in Members : lastOp.res[i]
            /\ lastOp.sent => lastOp.rc = 0
      /\ (\E k \in DOMAIN lastOp.called : ~lastOp.res[lastOp.called[k]])
            => lastOp.ret = 0
      /\ (lastOp.sent /\ lastOp.rc # 0) => lastOp.ret = 0

\* C15: a decoder call that finds no ready record returns 0 and changes
\* nothing: the size stays zero, and the consumption index, the running
\* stride total, the offset and the flags are what they were on entry.
C15_EmptyPoll ==
    mpLast.op = "cyclic_buffer_read" =>
      \A k \in DOMAIN mpLast.polls :
        LET d == mpLast.polls[k] IN
        ~d.ready =>
          /\ d.ret = 0
          /\ d.size = 0 /\ d.size_before = 0
          /\ d.index_after = d.index_before
          /\ d.strides_after = d.strides_before
          /\ d.offset = d.offset_before
          /\ d.flags = d.flags_before

\* C15 witness: after a good record was decoded in the same call and its
\* strides were counted, the decoder found the queue empty
C15_Witness ==
    /\ mpLast.op = "cyclic_buffer_read"
    /\ Len(mpLast.polls) >= 2
    /\ mpLast.polls[1].ready
    /\ ~mpLast.polls[Len(mpLast.polls)].ready
    /\ mpLast.polls[Len(mpLast.polls)].strides_before > 0

\* C16: every read and every write of the active-set array happens while
\* the executing thread holds the RX lock or the TX lock: a thread that has
\* just read m_active_rings[id] in a transmit call, and a thread inside the
\* member loop or the gap closing of restart, owns one of the two locks.
C16_ActiveSetLocked ==
    \A t \in Threads :
        pc[t] \in {"tx_have_active", "restart_loop", "restart_set"} =>
            m_lock_ring_rx.owner = t \/ m_lock_ring_tx.owner = t

\* C17: when the decoder signals failure (-1) to cyclic_buffer_read for a
\* ready record whose operation type is not the responder-send type,
\* cyclic_buffer_read returns -1 to its caller.
C17_DecoderFailure ==
    (/\ mpLast.op = "cyclic_buffer_read"
     /\ mpLast.polls # <<>>
     /\ mpLast.polls[1].ready
     /\ mpLast.polls[1].ret = -1) => mpLast.ret = -1

\* C18: when the first record a cyclic_buffer_read call decodes is a bad
\* record (filler bit set or checksum validity failed), the call writes no
\* completion and the buffer pointer, the packet count and the byte count
\* are what they were before the call, in the EMPTY and in the ACCUMULATING
\* state.
C18_BadFirstRecord ==
    (/\ mpLast.op = "cyclic_buffer_read"
     /\ mpLast.polls # <<>>
     /\ mpLast.polls[1].ready
     /\ mpLast.polls[1].ret = 0
     /\ VMA_MP_RQ_BAD_PACKET \in mpLast.polls[1].flags) =>
      /\ ~mpLast.completion.written
      /\ m_curr_d_addr = mpLast.before.d_addr
      /\ m_curr_packets = mpLast.before.packets
      /\ m_curr_size = mpLast.before.size

\* C19: a call in which a decoded record brings the stride counter to or
\* above the budget posts one receive descriptor for the work queue that was
\* current, moves the index to the next work queue modulo m_wq_count and
\* resets the stride counter; at every return of cyclic_buffer_read the
\* stride counter is below the budget and the index is in [0, m_wq_count).
C19_StrideBudget ==
    mpLast.op = "cyclic_buffer_read" =>
      /\ (\E k \in DOMAIN mpLast.polls :
             mpLast.polls[k].strides_after >= m_pow_strides_num) =>
           /\ mpLast.posted = <<mpLast.before.wq>>
           /\ m_curr_wq = (mpLast.before.wq + 1) % m_wq_count
           /\ m_stride_counter = 0
      /\ m_stride_counter < m_pow_strides_num
      /\ m_curr_wq \in 0 .. m_wq_count - 1

\* C20: a completion written by cyclic_buffer_read(min, max) never reports
\* more packets than max, whatever calls were made before it.
C20_AtMostMax ==
    (mpLast.op = "cyclic_buffer_read" /\ mpLast.completion.written) =>
        mpLast.completion.packets <= mpLast.max

\* ------------------------------------------------- claims, third group
C21_Armed(called) == {called[k] : k \in DOMAIN called}

\* C21: when restart returns, arming of RX and of TX completion
\* notifications has been requested on every member that is up, also when
\* the arming of some member failed.
C21_ArmEveryUpMember ==
    (rsLast.op = "restart" /\ rsLast.returned) =>
        \A i \in Members :
            up[i] => i \in C21_Armed(rsLast.rx) /\ i \in C21_Armed(rsLast.tx)

\* steps from slot a forward (increasing index, wrapping) to slot b
C22_Dist(a, b) == (b - a + m_n_num_resources) % m_n_num_resources
\* the nearest active member that precedes / follows slot i cyclically
C22_Preceding(i) ==
    CHOOSE j \in Members :
        up[j] /\ \A k \in Members : up[k] => C22_Dist(j, i) <= C22_Dist(k, i)
C22_Following(i) ==
    CHOOSE j \in Members :
        up[j] /\ \A k \in Members : up[k] => C22_Dist(i, j) <= C22_Dist(i, k)
C22_SomeUp == \E k \in Members : up[k]

\* C22 as stated: after gap closing every slot whose member is active holds
\* that member and every slot whose member is inactive holds the nearest
\* active member that precedes it cyclically (a forward scan).
C22_ForwardScan ==
    \A i \in Members :
        /\ up[i] => m_active_rings[i] = i
        /\ (~up[i] /\ C22_SomeUp) => m_active_rings[i] = C22_Preceding(i)

\* C22 amended: after gap closing every slot whose member is active holds
\* that member and every slot whose member is inactive holds the nearest
\* active member that follows it cyclically (the scan goes backward from
\* the first active slot, wrapping from 0 to N - 1).
C22_BackwardScan ==
    \A i \in Members :
        /\ up[i] => m_active_rings[i] = i
        /\ (~up[i] /\ C22_SomeUp) => m_active_rings[i] = C22_Following(i)

\* C22 witness: a reconfiguration left an inactive slot whose preceding and
\* following active members differ
C22_Witness ==
    /\ lastOp.op = "restart"
    /\ \E i \in Members :
          ~up[i] /\ C22_SomeUp /\ C22_Preceding(i) # C22_Following(i)

C24_At(names) ==
    {k \in DOMAIN rsLast.events : rsLast.events[k][1] \in names}
C24_Arm == C24_At({"arm_rx", "arm_tx"})
C24_ActiveSet ==
    C24_At({"start_active_qp_mgr", "stop_active_qp_mgr",
            "close_gaps_active_rings"})
C24_Mod == C24_At({"moderation_copy", "modify_cq_moderation"})

\* C24 as stated: within restart every arming request comes after the
\* active set was updated and gap-closed and after the moderation settings
\* were copied and pushed to the hardware.
C24_ArmingLast ==
    rsLast.op = "restart" =>
        \A k \in C24_Arm : \A j \in C24_ActiveSet \cup C24_Mod : j < k

\* C24 amended: within restart every arming request comes after the active
\* set was updated and gap-closed and before the moderation settings are
\* copied and pushed to the hardware.
C24_ArmingBeforeModeration ==
    rsLast.op = "restart" =>
        \A k \in C24_Arm :
            /\ \A j \in C24_ActiveSet : j < k
            /\ \A j \in C24_Mod : k < j

\* C24 witness: a restart that armed members and updated the moderation
C24_Witness ==
    /\ rsLast.op = "restart" /\ rsLast.returned
    /\ C24_Arm # {} /\ C24_Mod # {}
    /\ Len(rsLast.rx) >= 1 /\ Len(rsLast.tx) >= 1

\* ------------------------------------------------- the reference hash
\* A 32-bit value as the set of the positions of its one bits.
C26_Bits16(v) == {k \in 0 .. 15 : (v \div (2 ^ k)) % 2 = 1}
C26_Bits(x) == C26_Bits16(x.lo) \cup {k + 16 : k \in C26_Bits16(x.hi)}
C26_XorB(A, B) == (A \ B) \cup (B \ A)
C26_ShrB(A, s) == {k - s : k \in {j \in A : j >= s}}
RECURSIVE C26_PowMod(_, _)
C26_PowMod(k, n) == IF k = 0 THEN 1 % n ELSE (2 * C26_PowMod(k - 1, n)) % n
RECURSIVE C26_ModB(_, _)
C26_ModB(A, n) ==
    IF A = {} THEN 0
    ELSE LET k == CHOOSE j \in A : TRUE
         IN  (C26_PowMod(k, n) + C26_ModB(A \ {k}, n)) % n
C26_FoldB(A) ==
    LET h1 == C26_XorB(A, C26_ShrB(A, 16)) IN C26_XorB(h1, C26_ShrB(h1, 8))

\* the reference hash of the frame in with ethertype ety, modulo n
C26_Ref(policy, n, in, ety) ==
    LET l2 == C26_XorB(C26_XorB(C26_Bits16(in.dst_mac5),
                                C26_Bits16(in.src_mac5)), C26_Bits16(ety))
        ips == C26_XorB(C26_Bits(in.src_ip), C26_Bits(in.dst_ip))
        ports == C26_Bits16(in.src_port)
                 \cup {k + 16 : k \in C26_Bits16(in.dst_port)}
    IN  IF ety # htons(ETH_P_IP) \/ policy = "XHP_LAYER_2"
        THEN C26_ModB(l2, n)
        ELSE IF policy \in {"XHP_LAYER_2_3", "XHP_ENCAP_2_3"}
        THEN C26_ModB(C26_FoldB(C26_XorB(l2, ips)), n)
        ELSE C26_ModB(C26_FoldB(C26_XorB(ports, ips)), n)

C25_Tagged ==
    /\ hashLast # HashNone
    /\ m_type = "LAG_8023ad"
    /\ hashLast.in.eth_proto = htons(ETH_P_8021Q)

\* C25 as stated: in LAG mode, for an 802.1Q frame, generate_id works with
\* the encapsulated ethertype under every policy other than XHP_LAYER_2, and
\* with the outer ethertype under XHP_LAYER_2.
C25_EncapAboveLayer2 ==
    C25_Tagged =>
        hashLast.id =
            C26_Ref(m_xmit_hash_policy, m_n_num_resources, hashLast.in,
                    IF m_xmit_hash_policy # "XHP_LAYER_2"
                    THEN hashLast.in.encap_proto ELSE hashLast.in.eth_proto)

\* C25 amended: in LAG mode, for an 802.1Q frame, generate_id works with the
\* encapsulated ethertype under XHP_ENCAP_2_3 and XHP_ENCAP_3_4, and with the
\* outer ethertype under XHP_LAYER_2, XHP_LAYER_2_3 and XHP_LAYER_3_4.
C25_EncapPolicies ==
    C25_Tagged =>
        hashLast.id =
            C26_Ref(m_xmit_hash_policy, m_n_num_resources, hashLast.in,
                    IF m_xmit_hash_policy \in {"XHP_ENCAP_2_3", "XHP_ENCAP_3_4"}
                    THEN hashLast.in.encap_proto ELSE hashLast.in.eth_proto)

\* C25 witness: a tagged IP frame under an encapsulation policy whose id is
\* not the one the outer ethertype gives
C25_Witness ==
    /\ C25_Tagged
    /\ m_xmit_hash_policy = "XHP_ENCAP_3_4"
    /\ hashLast.in.encap_proto = htons(ETH_P_IP)
    /\ hashLast.id # C26_Ref(m_xmit_hash_policy, m_n_num_resources,
                             hashLast.in, hashLast.in.eth_proto)

\* the ethertype generate_id works with
C26_Ethertype ==
    IF /\ hashLast.in.eth_proto = htons(ETH_P_8021Q)
       /\ m_xmit_hash_policy \in {"XHP_ENCAP_2_3", "XHP_ENCAP_3_4"}
    THEN hashLast.in.encap_proto ELSE hashLast.in.eth_proto

\* C26: in LAG mode the id is the reference hash over 32-bit unsigned
\* arithmetic modulo N: the XOR of the last MAC bytes and the ethertype for
\* non-IP frames and under XHP_LAYER_2, that value XOR the addresses and
\* folded by 16 and by 8 under the 2+3 policies, the ports (source low,
\* destination high) XOR the addresses and folded under the 3+4 policies.
C26_ReferenceHash ==
    (hashLast # HashNone /\ m_type = "LAG_8023ad") =>
        hashLast.id = C26_Ref(m_xmit_hash_policy, m_n_num_resources,
                              hashLast.in, C26_Ethertype)

\* C26 witness: an IP frame under a 3+4 policy with address and port bits
\* above bit 15 set, hashed to a member other than the first of three or more
C26_Witness ==
    /\ hashLast # HashNone /\ m_type = "LAG_8023ad"
    /\ m_xmit_hash_policy = "XHP_LAYER_3_4"
    /\ hashLast.in.eth_proto = htons(ETH_P_IP)
    /\ hashLast.in.src_ip.hi = 65535
    /\ hashLast.id # 0
    /\ m_n_num_resources >= 3

\* the fields of a completion record, read from its bytes in network order
C27_Filler(cqe) == cqe.byte_cnt[1] >= 128
C27_Strides(cqe) == ((cqe.byte_cnt[1] % 128) * 256) + cqe.byte_cnt[2]
C27_Bytes(cqe) == (cqe.byte_cnt[3] * 256) + cqe.byte_cnt[4]
C27_Wqe(cqe) == ((cqe.wqe_counter % 256) * 256) + (cqe.wqe_counter \div 256)

\* C27: a decoder call that finds a ready responder-send record with the
\* filler bit clear adds bits 16-30 of the byte count to the stride total;
\* with the L3 and L4 bits both set it reports size = bits 0-15, offset =
\* work-queue counter * stride size and no bad-packet flag, otherwise size 1
\* and the bad-packet flag; the fields are read in network byte order.
C27_GoodRecord ==
    mpLast.op = "cyclic_buffer_read" =>
      \A k \in DOMAIN mpLast.polls :
        LET d == mpLast.polls[k] IN
        (/\ d.ready
         /\ d.cqe[1].opcode = "MLX5_CQE_RESP_SEND"
         /\ ~C27_Filler(d.cqe[1])) =>
          /\ d.strides_after = d.strides_before + C27_Strides(d.cqe[1])
          /\ IF d.cqe[1].l3_ok /\ d.cqe[1].l4_ok
             THEN /\ d.size = C27_Bytes(d.cqe[1])
                  /\ d.offset = C27_Wqe(d.cqe[1]) * m_pow_stride_size
                  /\ VMA_MP_RQ_BAD_PACKET \notin d.flags
             ELSE /\ d.size = 1
                  /\ VMA_MP_RQ_BAD_PACKET \in d.flags

\* C27 witness: one call decoded a good record at work-queue counter 1 and
\* then a record with a failed checksum
C27_Witness ==
    /\ mpLast.op = "cyclic_buffer_read"
    /\ Len(mpLast.polls) >= 2
    /\ mpLast.polls[1].ready /\ mpLast.polls[1].ret = 0
    /\ mpLast.polls[1].flags = UDP_OK_FLAGS
    /\ mpLast.polls[1].offset = m_pow_stride_size
    /\ mpLast.polls[1].size > 1
    /\ mpLast.polls[2].ready /\ mpLast.polls[2].ret = 0
    /\ ~C27_Filler(mpLast.polls[2].cqe[1])
    /\ ~mpLast.polls[2].cqe[1].l3_ok


\* the packets and the bytes accumulated and not reported yet
C28_Accumulated ==
    IF m_curr_d_addr = 0 THEN [packets |-> 0, size |-> 0]
    ELSE [packets |-> m_curr_packets, size |-> m_curr_size]

\* C28: across any sequence of cyclic_buffer_read calls, the packets of all
\* the completions written plus the packets accumulated are the good records
\* decoded so far, and the bytes likewise: no packet is reported twice and
\* none is dropped.
C28_Conservation ==
    /\ mpTotals.emitted_packets + C28_Accumulated.packets
         = mpTotals.good_packets
    /\ mpTotals.emitted_bytes + C28_Accumulated.size = mpTotals.good_bytes

\* the members whose queue the restart call running in thread t has stopped
\* so far
C29_Stopped(t) ==
    IF local[t].op # "restart" THEN {}
    ELSE {m \in Members :
            /\ ~local[t].info[m]
            /\ \/ m < local[t].i
               \/ m = local[t].i /\ pc[t] = "restart_set"}

\* C29: in every interleaving of restart with transmit calls,
\* send_ring_buffer and send_lwip_buffer never hand a buffer for send to a
\* member whose queue the running restart has already stopped.
C29_NoSendToStopped ==
    (/\ lastOp.op \in {"send_ring_buffer", "send_lwip_buffer"}
     /\ lastOp.sentTo # NULL) =>
        \A t \in Threads : lastOp.sentTo \notin C29_Stopped(t)

\* the bucket indices a reclaim_recv_buffers call reads: those of the
\* members and the overflow index
C30_Accessed == 0 .. m_n_num_resources

\* C30: for every N in 1 .. 10, the overflow bucket of the queue-shape
\* routing (index N) lies inside the array of MAX_NUM_RING_RESOURCES buckets
\* that reclaim_recv_buffers allocates (indices 0 .. 9): no bucket access is
\* out of bounds.
C30_OverflowInside ==
    rtOut.shape = "queue" =>
      /\ \A i \in C30_Accessed : i \in 0 .. (MAX_NUM_RING_RESOURCES - 1)
      /\ ~rtOut.oob

\* C31: restart never dereferences a null entry of the active set, for
\* every vector of member states, the one that marks every member inactive
\* included.
C31_NoNullDeref ==
    rsLast.op = "restart" => ~rsLast.null_deref

\* C32: after construction and after every restart, every non-null
\* m_active_rings[i] is a member marked active in the latest configuration,
\* m_active_rings[i] is member i for every i marked active, and a member
\* marked inactive is in no slot of the active set.
C32_ActiveMembersOnly ==
    /\ \A i \in Members :
          m_active_rings[i] # NULL =>
              (m_active_rings[i] \in Members /\ up[m_active_rings[i]])
    /\ \A i \in Members : up[i] => m_active_rings[i] = i
    /\ \A m \in Members :
          ~up[m] => \A i \in Members : m_active_rings[i] # m

\* a restart left a member inactive and another one active, which fills its
\* own slot and the slot of the inactive member
C32_Witness ==
    /\ lastOp.op = "restart"
    /\ m_n_num_resources >= 3
    /\ \E i, j \in Members :
          /\ i # j
          /\ ~up[i] /\ up[j]
          /\ m_active_rings[i] = j
          /\ m_active_rings[j] = j

\* how many times thread t holds the recursive lock l
C33_Held(l, t) == IF l.owner = t THEN l.count ELSE 0

\* a thread that is in no operation, or waits at the first lock() of one,
\* holds no lock; in the tap-backed attach_flow / detach_flow, before and
\* after the inner ring_bond call, it holds the RX lock once
C33_Balanced ==
    \A t \in Threads :
        /\ pc[t] \in {"idle", "restart_wait", "flow_wait", "netvsc_wait"} =>
              /\ C33_Held(m_lock_ring_rx, t) = 0
              /\ C33_Held(m_lock_ring_tx, t) = 0
        /\ pc[t] \in {"netvsc_locked", "netvsc_msg"} =>
              /\ C33_Held(m_lock_ring_rx, t) = 1
              /\ C33_Held(m_lock_ring_tx, t) = 0

\* thread t waits in a lock() of restart or of attach_flow / detach_flow
C33_Blocked(t) ==
    pc[t] \in {"restart_wait", "restart_rx", "flow_wait", "netvsc_wait"}

\* thread t is past the lock() calls of its operation: restart holds both
\* locks, attach_flow / detach_flow holds the RX lock
C33_Obtained(t) ==
    \/ pc[t] = "restart_loop" /\ m_lock_ring_rx.owner = t
                              /\ m_lock_ring_tx.owner = t
    \/ pc[t] \in {"flow", "netvsc_locked"} /\ m_lock_ring_rx.owner = t

\* a thread blocked in restart or in attach_flow / detach_flow gets its locks
C33_Obtains == \A t \in Threads : C33_Blocked(t) ~> C33_Obtained(t)

C34_Expected(key) ==
    IF \E k \in DOMAIN profAdds : profAdds[k].key = key
    THEN profAdds[CHOOSE k \in DOMAIN profAdds : profAdds[k].key = key].prof
    ELSE NULL

\* C34: the k-th add_profile call returns key k (keys start at 1, increase
\* by one, are pairwise distinct and never 0); after any sequence of
\* add_profile calls get_profile(key) gives the profile created by the call
\* that returned key, and NULL for key 0 and for every key never returned.
C34_ProfileKeys ==
    /\ \A k \in DOMAIN profAdds :
          /\ profAdds[k].key = k
          /\ profAdds[k].prof = k
          /\ profAdds[k].prof \in DOMAIN profHeap
    /\ \A key \in 0 .. (MaxProfiles + 1) :
          get_profile(m_profs_map, key) = C34_Expected(key)
    /\ get_profile(m_profs_map, 0) = NULL
    /\ profLast.op = "get_profile" => profLast.ret = C34_Expected(profLast.key)
    /\ profLast.op = "add_profile" =>
          /\ profLast.ret = Len(profAdds)
          /\ profHeap[get_profile(m_profs_map, profLast.ret)]
               = ring_profile(profLast.profile)

\* after three add_profile calls the profile of the second one was looked up
C34_Witness ==
    /\ Len(profAdds) = 3
    /\ profLast.op = "get_profile"
    /\ profLast.key = 2
    /\ profLast.ret = profAdds[2].prof
    /\ profHeap[profLast.ret].ring_type # profHeap[profAdds[1].prof].ring_type

====
